---- MODULE Spec2Model ----
(***************************************************************************)
(* Replay ("service") engine, pattern detector and chatbot negotiation of  *)
(* the smart-home panel: main_panel.py (MainPanel), data_generator.py      *)
(* (analyze_pattern), csv_database.py (SmartHomeCSV.save_rule) and         *)
(* floor_plan.py (devices).                                                *)
(*                                                                         *)
(* Timestamps are seconds counted from midnight of the first day.  Names   *)
(* and messages are sequences of tokens (romanised), so that the           *)
(* substring test, strip() and the exact-name match are computed.          *)
(***************************************************************************)
EXTENDS Integers, Sequences, FiniteSets, TLC

\* Python's None for a datetime field and for pending_event.
NoTime == 0 - 1

\* ------------------------------------------------------------------ time

Minute == 60
Hour == 60 * Minute
Day == 24 * Hour

At(day, hh, mm, ss) == day * Day + hh * Hour + mm * Minute + ss

\* Mutant of strftime_HM: the key keeps the seconds ("%H:%M:%S").
strftime_HM_Seconds(ts) == <<(ts \div Hour) % 24, (ts \div Minute) % 60, ts % Minute>>

\* datetime.strftime("%H:%M"): hour and minute of the day, seconds dropped.
strftime_HM(ts) == <<(ts \div Hour) % 24, (ts \div Minute) % 60>>

\* ------------------------------------------------------------- registry

JOMYEONG == "jomyeong"

GeosilJomyeong == <<"geosil", " ", JOMYEONG>>
JubangJomyeong == <<"jubang", " ", JOMYEONG>>
Chimsil1Jomyeong == <<"chimsil1", " ", JOMYEONG>>
Chimsil2Jomyeong == <<"chimsil2", " ", JOMYEONG>>
Chimsil3Jomyeong == <<"chimsil3", " ", JOMYEONG>>
HyeongwanJomyeong == <<"hyeongwan", " ", JOMYEONG>>
Eeokeon == <<"eeokeon">>
GaseuBaelbeu == <<"gaseubaelbeu">>
Boilleo == <<"boilleo">>
CCTV == <<"CCTV">>

\* The wildcard of apply_event and the generator's name without the space.
ModeunJomyeong == <<"modeun", JOMYEONG>>
GeosilJomyeongNoSpace == <<"geosil", JOMYEONG>>

\* floor_plan.devices: the names of the ten registered devices.
DeviceNames ==
    { GeosilJomyeong, JubangJomyeong, Chimsil1Jomyeong, Chimsil2Jomyeong,
      Chimsil3Jomyeong, HyeongwanJomyeong, Eeokeon, GaseuBaelbeu, Boilleo, CCTV }

\* Mutant of Contains: every name matches.
Contains_Anything(name, keyword) == TRUE

\* Python's  keyword in name  on token sequences.
Contains(name, keyword) == \E i \in 1..Len(name) : name[i] = keyword

\* floor_plan.devices in list order, the order apply_event stores them in.
DeviceList ==
    << GeosilJomyeong, JubangJomyeong, Chimsil1Jomyeong, Chimsil2Jomyeong,
       Chimsil3Jomyeong, HyeongwanJomyeong, Eeokeon, GaseuBaelbeu, Boilleo, CCTV >>

\* --------------------------------------------------------------- events

Ev(ts, device, value) == [timestamp |-> ts, device |-> device, value |-> value]

\* Contents of data/generated.csv that load_csv may find.
\* FileDaily: two keys recurring three times, 15 minutes apart (due in one
\* 60x tick, in separate ticks after a 10x tick), a third key seen twice
\* under a name that is not registered, and rows out of timestamp order.
FileDaily ==
    << Ev(At(0, 8, 0, 0), GeosilJomyeong, "ON"),
       Ev(At(0, 8, 15, 0), ModeunJomyeong, "OFF"),
       Ev(At(0, 8, 0, 30), GeosilJomyeong, "ON"),
       Ev(At(0, 8, 0, 30), GeosilJomyeongNoSpace, "ON"),
       Ev(At(0, 8, 15, 40), ModeunJomyeong, "OFF"),
       Ev(At(0, 8, 0, 45), GeosilJomyeongNoSpace, "OFF"),
       Ev(At(1, 8, 0, 0), GeosilJomyeong, "ON"),
       Ev(At(1, 8, 15, 10), ModeunJomyeong, "OFF") >>

\* FileSparse: no key reaches the threshold.
FileSparse ==
    << Ev(At(0, 7, 30, 0), GeosilJomyeong, "ON"),
       Ev(At(1, 7, 30, 20), GeosilJomyeong, "OFF") >>

FileEmpty == << >>

\* FileEarly: two rows earlier than every row of the other files.
FileEarly ==
    << Ev(At(0, 7, 0, 0), Boilleo, "ON"),
       Ev(At(0, 7, 10, 0), Boilleo, "OFF") >>

\* sensitivity_spin.setValue(3)
DefaultSensitivity == 3

\* What open("data/generated.csv") finds: no file, or these rows.
NoFile == [exists |-> FALSE, rows |-> << >>]

File(rows) == [exists |-> TRUE, rows |-> rows]

NoEvent == Ev(NoTime, << >>, "")

\* No session was ended by the last handler.
NoCompletion == [sim_time |-> NoTime, sim_end_time |-> NoTime, sent |-> << >>]

\* ------------------------------------------------------- pattern detector

Threshold == 3

EmptyMap == << >>

Get(map, key, default) == IF key \in DOMAIN map THEN map[key] ELSE default

Put(map, key, val) ==
    [k \in DOMAIN map \cup {key} |-> IF k = key THEN val ELSE map[k]]

\* Mutant of CountEvents: the device's map is replaced, not updated, so a
\* count survives only while no other time of that device intervenes.
RECURSIVE CountEvents_Overwrite(_, _)
CountEvents_Overwrite(patterns, counts) ==
    IF patterns = << >> THEN counts
    ELSE LET event == Head(patterns)
             device == event.device
             time_key == strftime_HM(event.timestamp)
             c == Get(Get(counts, device, EmptyMap), time_key, 0) + 1
         IN  CountEvents_Overwrite(Tail(patterns),
                                   Put(counts, device, Put(EmptyMap, time_key, c)))

\* The counting loop of analyze_pattern.
RECURSIVE CountEvents(_, _)
CountEvents(patterns, counts) ==
    IF patterns = << >> THEN counts
    ELSE LET event == Head(patterns)
             device == event.device
             time_key == strftime_HM(event.timestamp)
             c == Get(Get(counts, device, EmptyMap), time_key, 0) + 1
             time_map == Get(counts, device, EmptyMap)
         IN  CountEvents(Tail(patterns),
                         Put(counts, device, Put(time_map, time_key, c)))

\* Mutant of Frequent: a pair seen twice already counts as repeated.
Frequent_Twice(time_map) ==
    [t \in {t \in DOMAIN time_map : time_map[t] >= 2} |-> time_map[t]]

Frequent(time_map) ==
    [t \in {t \in DOMAIN time_map : time_map[t] >= Threshold} |-> time_map[t]]

analyze_pattern(patterns) ==
    LET counts == CountEvents(patterns, EmptyMap)
    IN  [device \in {d \in DOMAIN counts : DOMAIN Frequent(counts[d]) # {}}
            |-> Frequent(counts[device])]

\* ---------------------------------------------------------------- state

VARIABLES
    loaded_events,      \* MainPanel.loaded_events
    detected_patterns,  \* MainPanel.detected_patterns (absent = empty mapping)
    sent_patterns,      \* MainPanel.sent_patterns
    service_running,
    step_mode,
    paused_for_chatbot,
    pending_event,
    sim_time,
    sim_end_time,
    service_index,
    timer_active,       \* service_timer.isActive()
    play_btn_enabled,   \* play_btn.isEnabled()
    devices,            \* floor_plan.devices: name -> state
    db_devices,         \* devices.csv: rows [name, type, status]
    db_rules,           \* rules.csv: rows [id, condition, action, enabled]
    outbox,             \* messages send_message() sent in the last handler
    saved_patterns,     \* rows save_pattern() appended in the last handler
    session_sent,       \* history: keys notified since the session started
    session_events,     \* history: loaded_events when the session started
    busy_notify,        \* history: the last handler notified while awaiting
    period_end,         \* history: the last handler ran the end-of-period restart
    session_started,    \* history: the last handler started a session
    completed,          \* history: the session that restart ended, else NoCompletion
    session_applied,    \* history: events the replay loop applied since the session started
    ticks,              \* history: ticks driven since the session started
    slow_ticks,         \* history: those of them at 1x or 10x
    op,                 \* history: the last handler and its inputs
    an_patterns,        \* the argument of the latest analyze_pattern call
    an_repeated,        \* what that call returned
    an_calls,           \* history: direct calls of analyze_pattern so far
    an_first,           \* history: argument and result of the first call
    inbox,              \* message_received emissions not yet delivered to the UI thread
    ui_turn,            \* the handler the UI thread is inside, or "idle"
    rounds,             \* history: keys notified in the last two sessions ended by the period check
    assigned_ids,       \* history: ids save_rule has assigned, in order
    dev_updates,        \* history: the status the direct update_device_status calls gave last, by name
    pattern_log,        \* patterns.csv: rows [timestamp, device, action]
    pattern_given,      \* history: the arguments of the direct save_pattern calls, in order
    queried,            \* the get_patterns call made since the last save, and what it returned
    sensitivity,        \* sensitivity_spin.value()
    to_bot,             \* texts sent to the chatbot's port and not yet received there
    waiting_for_response, \* SmartChatBot.waiting_for_response (absent = False)
    last_pattern_info,  \* SmartChatBot.last_pattern_info
    bot_turn,           \* the handler the chatbot's UI thread is inside, or "idle"
    patterns_received,  \* history: pattern messages the chatbot has received
    created_claimed,    \* history: the prompts the chatbot answered with CREATE_RULE
    ext_device,         \* an ExtendedPlanDevice: type, state, properties
    ext_call            \* history: the latest DeviceCommand call and the device before it

vars ==
    << loaded_events, detected_patterns, sent_patterns, service_running,
       step_mode, paused_for_chatbot, pending_event, sim_time, sim_end_time,
       service_index, timer_active, play_btn_enabled, devices, db_devices,
       db_rules, outbox, saved_patterns, session_sent, session_events,
       busy_notify, period_end, session_started, completed, session_applied,
       ticks, slow_ticks, op, an_patterns, an_repeated, an_calls, an_first,
       inbox, ui_turn, rounds, assigned_ids, dev_updates, pattern_log,
       pattern_given, queried, sensitivity, to_bot, waiting_for_response,
       last_pattern_info, bot_turn, patterns_received, created_claimed,
       ext_device, ext_call >>

\* The panel as one record, so that a handler can call another.
Panel ==
    [ loaded_events |-> loaded_events,
      detected_patterns |-> detected_patterns,
      sent_patterns |-> sent_patterns,
      service_running |-> service_running,
      step_mode |-> step_mode,
      paused_for_chatbot |-> paused_for_chatbot,
      pending_event |-> pending_event,
      sim_time |-> sim_time,
      sim_end_time |-> sim_end_time,
      service_index |-> service_index,
      timer_active |-> timer_active,
      play_btn_enabled |-> play_btn_enabled,
      devices |-> devices,
      db_devices |-> db_devices,
      db_rules |-> db_rules,
      outbox |-> << >>,
      saved_patterns |-> << >>,
      session_sent |-> session_sent,
      session_events |-> session_events,
      busy_notify |-> FALSE,
      period_end |-> FALSE,
      session_started |-> FALSE,
      completed |-> NoCompletion,
      session_applied |-> session_applied,
      ticks |-> ticks,
      slow_ticks |-> slow_ticks ]

Op(name, message) == [name |-> name, message |-> message]

analyze_vars == << an_patterns, an_repeated, an_calls, an_first >>

thread_vars == << inbox, ui_turn >>

store_vars == << dev_updates, pattern_log, pattern_given, queried >>

settings_vars == << sensitivity >>

ext_vars == << ext_device, ext_call >>

chat_vars ==
    << to_bot, waiting_for_response, last_pattern_info, bot_turn,
       patterns_received, created_claimed >>

panel_vars ==
    << loaded_events, detected_patterns, sent_patterns, service_running,
       step_mode, paused_for_chatbot, pending_event, sim_time, sim_end_time,
       service_index, timer_active, play_btn_enabled, devices, db_devices,
       db_rules, outbox, saved_patterns, session_sent, session_events,
       busy_notify, period_end, session_started, completed, session_applied,
       ticks, slow_ticks, op >>

\* The panel's fields after a handler returned p.
CommitPanel(p, o) ==
    /\ loaded_events' = p.loaded_events
    /\ detected_patterns' = p.detected_patterns
    /\ sent_patterns' = p.sent_patterns
    /\ service_running' = p.service_running
    /\ step_mode' = p.step_mode
    /\ paused_for_chatbot' = p.paused_for_chatbot
    /\ pending_event' = p.pending_event
    /\ sim_time' = p.sim_time
    /\ sim_end_time' = p.sim_end_time
    /\ service_index' = p.service_index
    /\ timer_active' = p.timer_active
    /\ play_btn_enabled' = p.play_btn_enabled
    /\ devices' = p.devices
    /\ db_devices' = p.db_devices
    /\ db_rules' = p.db_rules
    /\ outbox' = p.outbox
    /\ saved_patterns' = p.saved_patterns
    /\ session_sent' = p.session_sent
    /\ session_events' = p.session_events
    /\ busy_notify' = p.busy_notify
    /\ period_end' = p.period_end
    /\ session_started' = p.session_started
    /\ completed' = p.completed
    /\ session_applied' = p.session_applied
    /\ ticks' = p.ticks
    /\ slow_ticks' = p.slow_ticks
    /\ op' = o

Commit(p, o) ==
    /\ CommitPanel(p, o)
    /\ UNCHANGED << analyze_vars, thread_vars, rounds, assigned_ids, store_vars, settings_vars, chat_vars, ext_vars >>

\* ------------------------------------------------------------- handlers

\* list.sort(key=timestamp): stable, so equal timestamps keep file order.
RECURSIVE InsertByTimestamp(_, _)
InsertByTimestamp(sorted, e) ==
    IF sorted = << >> THEN << e >>
    ELSE IF Head(sorted).timestamp <= e.timestamp
         THEN << Head(sorted) >> \o InsertByTimestamp(Tail(sorted), e)
         ELSE << e >> \o sorted

RECURSIVE SortByTimestamp(_)
SortByTimestamp(events) ==
    IF events = << >> THEN << >>
    ELSE InsertByTimestamp(SortByTimestamp(SubSeq(events, 1, Len(events) - 1)),
                           events[Len(events)])

load_csv(p, file) ==
    IF file.exists
    THEN [p EXCEPT !.loaded_events = SortByTimestamp(file.rows)]
    ELSE p

\* Mutant of Period: every session lasts 24 hours.
Period_AlwaysDay(duration) == 24 * Hour

\* timedelta(hours=24) or timedelta(days=7), by duration_box.
Period(duration) == IF duration = "24h" THEN 24 * Hour ELSE 7 * Day

\* Mutant of StartSession: sent_patterns survives from the session before.
StartSession_KeepsSent(p, duration) ==
    [p EXCEPT !.detected_patterns = analyze_pattern(p.loaded_events),
              !.session_sent = << >>,
              !.session_events = p.loaded_events,
              !.session_applied = << >>,
              !.session_started = TRUE,
              !.ticks = 0,
              !.slow_ticks = 0,
              !.service_running = TRUE,
              !.paused_for_chatbot = FALSE,
              !.sim_time = p.loaded_events[1].timestamp,
              !.sim_end_time = p.loaded_events[1].timestamp + Period(duration),
              !.service_index = 0]

\* The lines toggle_service and step_service share when a session starts.
StartSession(p, duration) ==
    [p EXCEPT !.detected_patterns = analyze_pattern(p.loaded_events),
              !.sent_patterns = {},
              !.session_sent = << >>,
              !.session_events = p.loaded_events,
              !.session_applied = << >>,
              !.session_started = TRUE,
              !.ticks = 0,
              !.slow_ticks = 0,
              !.service_running = TRUE,
              !.paused_for_chatbot = FALSE,
              !.sim_time = p.loaded_events[1].timestamp,
              !.sim_end_time = p.loaded_events[1].timestamp + Period(duration),
              !.service_index = 0]

\* Mutant of toggle_service: with nothing loaded the session is marked
\* running and the timer started all the same.
toggle_service_StartsEmpty(p, file, duration) ==
    IF p.service_running /\ ~p.paused_for_chatbot
    THEN [p EXCEPT !.timer_active = FALSE,
                   !.service_running = FALSE,
                   !.step_mode = FALSE,
                   !.play_btn_enabled = TRUE,
                   !.sim_end_time = NoTime]
    ELSE LET p1 == IF p.loaded_events = << >> THEN load_csv(p, file) ELSE p
         IN  IF p1.loaded_events = << >>
             THEN [p1 EXCEPT !.service_running = TRUE, !.timer_active = TRUE]
             ELSE [StartSession(p1, duration) EXCEPT !.step_mode = FALSE,
                                                     !.timer_active = TRUE]

toggle_service(p, file, duration) ==
    IF p.service_running /\ ~p.paused_for_chatbot
    THEN [p EXCEPT !.timer_active = FALSE,
                   !.service_running = FALSE,
                   !.step_mode = FALSE,
                   !.play_btn_enabled = TRUE,
                   !.sim_end_time = NoTime]
    ELSE LET p1 == IF p.loaded_events = << >> THEN load_csv(p, file) ELSE p
         IN  IF p1.loaded_events = << >> THEN p1
             ELSE [StartSession(p1, duration) EXCEPT !.step_mode = FALSE,
                                                     !.timer_active = TRUE]

\* The text of the pattern-detected message.
PatternMessage(device_name, time_key, value) ==
    << "paeteon gamji:", device_name, time_key, value >>

OnOff(state) == IF state THEN "ON" ELSE "OFF"

\* Mutant of NotifyChatbot: the key is not recorded in sent_patterns.
NotifyChatbot_NoMark(p, event, time_key) ==
    [p EXCEPT !.outbox = Append(@, PatternMessage(event.device, time_key, event.value)),
              !.pending_event = event,
              !.paused_for_chatbot = TRUE,
              !.timer_active = FALSE,
              !.session_sent = Append(@, << event.device, time_key >>),
              !.busy_notify = @ \/ p.paused_for_chatbot]

\* Mutant of NotifyChatbot: the timer is left running.
NotifyChatbot_TimerRuns(p, event, time_key) ==
    [p EXCEPT !.outbox = Append(@, PatternMessage(event.device, time_key, event.value)),
              !.sent_patterns = @ \cup {<< event.device, time_key >>},
              !.pending_event = event,
              !.paused_for_chatbot = TRUE,
              !.session_sent = Append(@, << event.device, time_key >>),
              !.busy_notify = @ \/ p.paused_for_chatbot]

\* Mutant of NotifyChatbot: an event already pending is kept.
NotifyChatbot_KeepsPending(p, event, time_key) ==
    [p EXCEPT !.outbox = Append(@, PatternMessage(event.device, time_key, event.value)),
              !.sent_patterns = @ \cup {<< event.device, time_key >>},
              !.pending_event = IF p.paused_for_chatbot THEN @ ELSE event,
              !.paused_for_chatbot = TRUE,
              !.timer_active = FALSE,
              !.session_sent = Append(@, << event.device, time_key >>),
              !.busy_notify = @ \/ p.paused_for_chatbot]

\* The body of the notification test of apply_event.
NotifyChatbot(p, event, time_key) ==
    [p EXCEPT !.outbox = Append(@, PatternMessage(event.device, time_key, event.value)),
              !.sent_patterns = @ \cup {<< event.device, time_key >>},
              !.pending_event = event,
              !.paused_for_chatbot = TRUE,
              !.timer_active = FALSE,
              !.session_sent = Append(@, << event.device, time_key >>),
              !.busy_notify = @ \/ p.paused_for_chatbot]

\* -------------------------------------------------------------- storage

\* update_device_status called without a type, and get_device_status
\* finding no row.
NoType == ""

NoStatus == "None"

\* The index of the first row of that name, 0 when there is none.
RECURSIVE FirstRow(_, _, _)
FirstRow(rows, device, i) ==
    IF i > Len(rows) THEN 0
    ELSE IF rows[i].name = device THEN i
    ELSE FirstRow(rows, device, i + 1)

\* Mutant of update_device_status: a row is appended whether or not the
\* device has one.
update_device_status_Append(rows, device, status, type_) ==
    Append(rows, [name |-> device, type |-> type_, status |-> status])

\* SmartHomeCSV.update_device_status over the rows _load_devices read, as
\* _save_devices writes them back: the first row of that name is updated
\* (its type only by a non-empty one), else a row is appended.
update_device_status(rows, device, status, type_) ==
    LET i == FirstRow(rows, device, 1)
    IN  IF i # 0
        THEN [rows EXCEPT ![i] = [name |-> rows[i].name,
                                   type |-> IF type_ # NoType THEN type_ ELSE rows[i].type,
                                   status |-> status]]
        ELSE Append(rows, [name |-> device, type |-> type_, status |-> status])

\* SmartHomeCSV.get_device_status
get_device_status(rows, device) ==
    LET i == FirstRow(rows, device, 1)
    IN  IF i # 0 THEN rows[i].status ELSE NoStatus

\* A datetime: whole seconds and the microsecond field.
Datetime(second, microsecond) == [second |-> second, microsecond |-> microsecond]

\* No get_patterns call since the last save.
NoQuery ==
    [called |-> FALSE, start_date |-> Datetime(0, 0), end_date |-> Datetime(0, 0),
     result |-> << >>]

\* strftime("%Y-%m-%d %H:%M:%S"): the microsecond is dropped; the strings
\* order as the whole seconds do.
strftime_YmdHMS(dt) == dt.second

\* SmartHomeCSV.save_pattern with a datetime
save_pattern(rows, timestamp, device, action) ==
    Append(rows, [timestamp |-> strftime_YmdHMS(timestamp),
                  device |-> device,
                  action |-> action])

\* Mutant of get_patterns: the end of the range is excluded.
get_patterns_EndExclusive(rows, start_date, end_date) ==
    LET InRange(r) == /\ strftime_YmdHMS(start_date) <= r.timestamp
                      /\ r.timestamp < strftime_YmdHMS(end_date)
    IN  SortByTimestamp(SelectSeq(rows, InRange))

\* SmartHomeCSV.get_patterns with datetime bounds
get_patterns(rows, start_date, end_date) ==
    LET InRange(r) == /\ strftime_YmdHMS(start_date) <= r.timestamp
                      /\ r.timestamp <= strftime_YmdHMS(end_date)
    IN  SortByTimestamp(SelectSeq(rows, InRange))

\* The loop of apply_event that stores every registered device's state.
RECURSIVE StoreFrom(_, _, _)
StoreFrom(rows, devs, i) ==
    IF i > Len(DeviceList) THEN rows
    ELSE StoreFrom(update_device_status(rows, DeviceList[i],
                                        OnOff(devs[DeviceList[i]]), NoType),
                   devs, i + 1)

\* Mutant of StoreDeviceStates: only the lights are stored.
StoreDeviceStates_LightsOnly(rows, devs) ==
    LET RECURSIVE Lit(_, _)
        Lit(r, i) ==
            IF i > Len(DeviceList) THEN r
            ELSE Lit(IF Contains(DeviceList[i], JOMYEONG)
                     THEN update_device_status(r, DeviceList[i],
                                               OnOff(devs[DeviceList[i]]), NoType)
                     ELSE r, i + 1)
    IN  Lit(rows, 1)

\* That loop. On a table that already lists the registry in order every
\* call finds its device at the device's own position, so the loop comes to
\* replacing each row's status.
StoreDeviceStates(rows, devs) ==
    IF [i \in 1..Len(rows) |-> rows[i].name] = DeviceList
    THEN [i \in 1..Len(rows) |->
            [name |-> rows[i].name, type |-> rows[i].type,
             status |-> OnOff(devs[rows[i].name])]]
    ELSE StoreFrom(rows, devs, 1)

\* Mutant of NamedTargets: names are compared without their spaces.
NamedTargets_IgnoresSpaces(names, device_name) ==
    LET NoSpace(name) == SelectSeq(name, LAMBDA token : token # " ")
    IN  {d \in names : NoSpace(d) = NoSpace(device_name)}

\* [d for d in devices if d.name == device_name]
NamedTargets(names, device_name) == {d \in names : d = device_name}

\* Mutant of ShouldNotify: the notification checkbox is not consulted.
ShouldNotify_IgnoresCheckbox(p, device_name, time_key, chat_notify) ==
    /\ DOMAIN p.detected_patterns # {}
    /\ device_name \in DOMAIN p.detected_patterns
    /\ Get(p.detected_patterns[device_name], time_key, 0) # 0
    /\ << device_name, time_key >> \notin p.sent_patterns

\* The condition of apply_event's notification block.
ShouldNotify(p, device_name, time_key, chat_notify) ==
    /\ DOMAIN p.detected_patterns # {}
    /\ chat_notify
    /\ device_name \in DOMAIN p.detected_patterns
    /\ Get(p.detected_patterns[device_name], time_key, 0) # 0
    /\ << device_name, time_key >> \notin p.sent_patterns

\* Mutant of apply_event: an ON event flips the target instead of setting it.
apply_event_Toggle(p, event, chat_notify) ==
    LET device_name == event.device
        value == event.value
        targets == IF device_name = ModeunJomyeong
                   THEN {d \in DOMAIN p.devices : Contains(d, JOMYEONG)}
                   ELSE NamedTargets(DOMAIN p.devices, device_name)
        devs == [d \in DOMAIN p.devices |->
                    IF d \in targets
                    THEN (IF value = "ON" THEN ~p.devices[d] ELSE FALSE)
                    ELSE p.devices[d]]
        status == StoreDeviceStates(p.db_devices, devs)
        p1 == [p EXCEPT !.devices = devs,
                        !.db_devices = status,
                        !.saved_patterns =
                            save_pattern(@, Datetime(event.timestamp, 0),
                                         device_name, value)]
        time_key == strftime_HM(event.timestamp)
    IN  IF ShouldNotify(p, device_name, time_key, chat_notify)
        THEN NotifyChatbot(p1, event, time_key)
        ELSE p1

apply_event(p, event, chat_notify) ==
    LET device_name == event.device
        value == event.value
        targets == IF device_name = ModeunJomyeong
                   THEN {d \in DOMAIN p.devices : Contains(d, JOMYEONG)}
                   ELSE NamedTargets(DOMAIN p.devices, device_name)
        devs == [d \in DOMAIN p.devices |->
                    IF d \in targets THEN value = "ON" ELSE p.devices[d]]
        status == StoreDeviceStates(p.db_devices, devs)
        p1 == [p EXCEPT !.devices = devs,
                        !.db_devices = status,
                        !.saved_patterns =
                            save_pattern(@, Datetime(event.timestamp, 0),
                                         device_name, value)]
        time_key == strftime_HM(event.timestamp)
    IN  IF ShouldNotify(p, device_name, time_key, chat_notify)
        THEN NotifyChatbot(p1, event, time_key)
        ELSE p1

\* The test of the while loop of advance_service.
EventDue(p) ==
    /\ p.service_index < Len(p.loaded_events)
    /\ p.loaded_events[p.service_index + 1].timestamp <= p.sim_time

\* One iteration of that loop.
ReplayOne(p, chat_notify) ==
    [apply_event(p, p.loaded_events[p.service_index + 1], chat_notify)
        EXCEPT !.service_index = @ + 1,
               !.session_applied = Append(@, p.loaded_events[p.service_index + 1])]

\* The while loop of advance_service.
RECURSIVE ReplayDue(_, _)
ReplayDue(p, chat_notify) ==
    IF EventDue(p) THEN ReplayDue(ReplayOne(p, chat_notify), chat_notify) ELSE p

\* Mutant of AdvanceClock: the clock moves one minute whatever the speed.
AdvanceClock_IgnoresSpeed(p, speed) ==
    [p EXCEPT !.sim_time = @ + Minute,
              !.ticks = @ + 1,
              !.slow_ticks = IF speed < 60 THEN @ + 1 ELSE @]

\* sim_time += timedelta(minutes=speed)
AdvanceClock(p, speed) ==
    [p EXCEPT !.sim_time = @ + speed * Minute,
              !.ticks = @ + 1,
              !.slow_ticks = IF speed < 60 THEN @ + 1 ELSE @]

\* The end-of-period check of advance_service.
EndOfPeriod(p, file, duration) ==
    IF p.sim_end_time # NoTime /\ p.sim_time >= p.sim_end_time
    THEN [toggle_service(toggle_service(p, file, duration), file, duration)
             EXCEPT !.period_end = TRUE,
                    !.completed = [sim_time |-> p.sim_time,
                                   sim_end_time |-> p.sim_end_time,
                                   sent |-> p.session_sent]]
    ELSE p

\* Mutant of Tick: the period is ended one tick before the clock reaches its end.
Tick_EndsEarly(p, speed, chat_notify, file, duration) ==
    LET p1 == [p EXCEPT !.sim_time = @ + speed * Minute,
                        !.ticks = @ + 1,
                        !.slow_ticks = IF speed < 60 THEN @ + 1 ELSE @]
        p2 == ReplayDue(p1, chat_notify)
    IN  IF p2.sim_end_time # NoTime /\ p2.sim_time + speed * Minute >= p2.sim_end_time
        THEN [toggle_service(toggle_service(p2, file, duration), file, duration)
                 EXCEPT !.period_end = TRUE,
                        !.completed = [sim_time |-> p2.sim_time,
                                       sim_end_time |-> p2.sim_end_time,
                                       sent |-> p2.session_sent]]
        ELSE p2

\* advance_service past its guard: one tick of the replay clock.
Tick(p, speed, chat_notify, file, duration) ==
    EndOfPeriod(ReplayDue(AdvanceClock(p, speed), chat_notify), file, duration)

\* Mutant of advance_service: the guard does not test service_running.
advance_service_NoRunningCheck(p, speed, chat_notify, file, duration) ==
    IF p.sim_time = NoTime \/ p.paused_for_chatbot
    THEN p
    ELSE Tick(p, speed, chat_notify, file, duration)

advance_service(p, speed, chat_notify, file, duration) ==
    IF ~p.service_running \/ p.sim_time = NoTime \/ p.paused_for_chatbot
    THEN p
    ELSE Tick(p, speed, chat_notify, file, duration)

\* Mutant of step_service: the step is driven whether or not the session waits.
step_service_IgnoresPause(p, speed, chat_notify, file, duration) ==
    LET p1 == IF p.loaded_events = << >> THEN load_csv(p, file) ELSE p
        p2 == IF p.service_running THEN p
              ELSE [StartSession(p1, duration) EXCEPT !.step_mode = TRUE,
                                                      !.play_btn_enabled = FALSE]
    IN  IF ~p.service_running /\ p1.loaded_events = << >> THEN p1
        ELSE Tick(p2, speed, chat_notify, file, duration)

step_service(p, speed, chat_notify, file, duration) ==
    LET p1 == IF p.loaded_events = << >> THEN load_csv(p, file) ELSE p
        p2 == IF p.service_running THEN p
              ELSE [StartSession(p1, duration) EXCEPT !.step_mode = TRUE,
                                                      !.play_btn_enabled = FALSE]
    IN  IF ~p.service_running /\ p1.loaded_events = << >> THEN p1
        ELSE IF p2.paused_for_chatbot THEN p2
        ELSE advance_service(p2, speed, chat_notify, file, duration)

\* ------------------------------------------------------- chatbot messages

Whitespace == {" "}

RECURSIVE LStrip(_)
LStrip(text) ==
    IF text # << >> /\ Head(text) \in Whitespace THEN LStrip(Tail(text)) ELSE text

RECURSIVE RStrip(_)
RStrip(text) ==
    IF text # << >> /\ text[Len(text)] \in Whitespace
    THEN RStrip(SubSeq(text, 1, Len(text) - 1))
    ELSE text

\* str.strip()
Strip(text) == RStrip(LStrip(text))

\* str.lower(), for the tokens that have upper-case letters.
LowerToken(tok) ==
    CASE tok = "CONTROL:" -> "control:"
      [] tok = "REQUEST_STATUS" -> "request_status"
      [] tok = "CREATE_RULE" -> "create_rule"
      [] OTHER -> tok

Lower(text) == [i \in 1..Len(text) |-> LowerToken(text[i])]

CREATE_RULE == << "CREATE_RULE" >>

\* Texts the chatbot process may send to the panel's port.
ChatMessages ==
    { CREATE_RULE,
      << "CREATE_RULE", " " >>,
      << "aniyo" >> }

_send_device_status_to_chatbot(p) ==
    [p EXCEPT !.outbox =
        Append(@, << "DEVICE_STATUS:", [d \in DOMAIN p.devices |-> OnOff(p.devices[d])] >>)]

_execute_chatbot_device_command(p, command) ==
    CASE command = "all_lights_on" ->
            [p EXCEPT !.devices = [d \in DOMAIN @ |->
                IF Contains(d, JOMYEONG) THEN TRUE ELSE @[d]]]
      [] command = "all_lights_off" ->
            [p EXCEPT !.devices = [d \in DOMAIN @ |->
                IF Contains(d, JOMYEONG) THEN FALSE ELSE @[d]]]
      [] command \in {"aircon_on", "aircon_off"} ->
            [p EXCEPT !.devices = [d \in DOMAIN @ |->
                IF Contains(d, "eeokeon") THEN command = "aircon_on" ELSE @[d]]]
      [] OTHER -> p

\* message.split(":", 2)[1].strip(): the token after the first colon.
_process_device_control_command(p, message) ==
    IF \E i \in 1..Len(message) : message[i] \in {"CONTROL:", "control:", ":"}
    THEN _execute_chatbot_device_command(p,
            IF Len(message) >= 2 /\ message[1] \in {"CONTROL:", "control:"}
            THEN message[2] ELSE "")
    ELSE p

_handle_chatbot_command(p, message) ==
    LET message_lower == Lower(Strip(message))
    IN  IF Contains(message_lower, "request_status")
        THEN _send_device_status_to_chatbot(p)
        ELSE IF Contains(message_lower, "control:")
        THEN _process_device_control_command(p, message)
        ELSE p

\* SmartHomeCSV._get_next_rule_id
RECURSIVE MaxId(_)
MaxId(rows) ==
    IF rows = << >> THEN 0
    ELSE LET m == MaxId(Tail(rows))
         IN  IF Head(rows).id > m THEN Head(rows).id ELSE m

_get_next_rule_id(rows) == MaxId(rows) + 1

\* SmartHomeCSV.save_rule
save_rule(rows, condition, action) ==
    Append(rows, [id |-> _get_next_rule_id(rows), condition |-> condition,
                  action |-> action, enabled |-> 1])

\* f"time == {cond}" and f"{dev} {act}"
RuleCondition(event) == << "time ==", strftime_HM(event.timestamp) >>

\* Mutant of RuleAction: the action text leaves out the value.
RuleAction_NoValue(event) == << event.device >>

RuleAction(event) == << event.device, event.value >>

\* Mutant of _handle_chat_message: any reply while awaiting creates the rule.
_handle_chat_message_AnyReply(p, message) ==
    LET p0 == _handle_chatbot_command(p, message)
    IN  IF p0.paused_for_chatbot
        THEN [p0 EXCEPT
                !.db_rules = save_rule(@, RuleCondition(p0.pending_event),
                                          RuleAction(p0.pending_event)),
                !.pending_event = NoEvent,
                !.paused_for_chatbot = FALSE,
                !.timer_active =
                    IF p0.service_running /\ ~p0.step_mode THEN TRUE ELSE @]
        ELSE p0

\* Mutant of _handle_chat_message: leaving the awaiting state also forgets
\* which patterns were notified.
_handle_chat_message_ForgetsSent(p, message) ==
    LET p0 == _handle_chatbot_command(p, message)
    IN  IF p0.paused_for_chatbot
        THEN [p0 EXCEPT
                !.db_rules =
                    IF Strip(message) = CREATE_RULE /\ p0.pending_event # NoEvent
                    THEN save_rule(@, RuleCondition(p0.pending_event),
                                      RuleAction(p0.pending_event))
                    ELSE @,
                !.pending_event = NoEvent,
                !.paused_for_chatbot = FALSE,
                !.sent_patterns = {},
                !.timer_active =
                    IF p0.service_running /\ ~p0.step_mode THEN TRUE ELSE @]
        ELSE p0

\* Mutant of _handle_chat_message: the awaiting flag is not tested.
_handle_chat_message_NoPauseCheck(p, message) ==
    LET p0 == _handle_chatbot_command(p, message)
    IN  [p0 EXCEPT
            !.db_rules =
                IF Strip(message) = CREATE_RULE /\ p0.pending_event # NoEvent
                THEN save_rule(@, RuleCondition(p0.pending_event),
                                  RuleAction(p0.pending_event))
                ELSE @,
            !.pending_event = NoEvent,
            !.paused_for_chatbot = FALSE,
            !.timer_active =
                IF p0.service_running /\ ~p0.step_mode THEN TRUE ELSE @]

_handle_chat_message(p, message) ==
    LET p0 == _handle_chatbot_command(p, message)
    IN  IF p0.paused_for_chatbot
        THEN [p0 EXCEPT
                !.db_rules =
                    IF Strip(message) = CREATE_RULE /\ p0.pending_event # NoEvent
                    THEN save_rule(@, RuleCondition(p0.pending_event),
                                      RuleAction(p0.pending_event))
                    ELSE @,
                !.pending_event = NoEvent,
                !.paused_for_chatbot = FALSE,
                !.timer_active =
                    IF p0.service_running /\ ~p0.step_mode THEN TRUE ELSE @]
        ELSE p0

\* ----------------------------------------------------- extended devices

LIGHT == "light"

AIRCON == "aircon"

TV == "tv"

\* A key that properties does not hold.
NoProperty == 0 - 1

\* ExtendedPlanDevice: the fields the commands read and write.
ExtendedPlanDevice(type, state, brightness, channel, volume) ==
    [type |-> type, state |-> state,
     properties |-> [brightness |-> brightness, channel |-> channel, volume |-> volume]]

\* extended_devices: a light, the air conditioner and the living-room TV.
extended_devices ==
    { ExtendedPlanDevice(LIGHT, FALSE, NoProperty, NoProperty, NoProperty),
      ExtendedPlanDevice(AIRCON, FALSE, NoProperty, NoProperty, NoProperty),
      ExtendedPlanDevice(TV, FALSE, NoProperty, 7, 25) }

Max(a, b) == IF a >= b THEN a ELSE b

Min(a, b) == IF a <= b THEN a ELSE b

\* Mutant of brightness_setter: the value is stored as given.
brightness_setter_NoClamp(device, value) ==
    [device EXCEPT !.properties.brightness = value]

\* ExtendedPlanDevice.brightness (setter)
brightness_setter(device, value) ==
    [device EXCEPT !.properties.brightness = Max(0, Min(100, value))]

\* ExtendedPlanDevice.brightness (getter): 100 when the key is absent.
brightness_getter(device) ==
    IF device.properties.brightness = NoProperty THEN 100
    ELSE device.properties.brightness

turn_on(device) == [device EXCEPT !.state = TRUE]

turn_off(device) == [device EXCEPT !.state = FALSE]

set_brightness(device, brightness) ==
    IF device.type = LIGHT
    THEN [brightness_setter(device, brightness) EXCEPT !.state = brightness > 0]
    ELSE device

NoCall == [name |-> "", before |-> ExtendedPlanDevice(LIGHT, FALSE, NoProperty, NoProperty, NoProperty), brightness |-> 0]

\* No DeviceCommand called yet, on the first light of the registry.
InitExt ==
    /\ ext_device = ExtendedPlanDevice(LIGHT, FALSE, NoProperty, NoProperty, NoProperty)
    /\ ext_call = NoCall

\* MainPanel.__init__ with a fresh data directory.
InitPanel ==
    /\ loaded_events = << >>
    /\ detected_patterns = EmptyMap
    /\ sent_patterns = {}
    /\ service_running = FALSE
    /\ step_mode = FALSE
    /\ paused_for_chatbot = FALSE
    /\ pending_event = NoEvent
    /\ sim_time = NoTime
    /\ sim_end_time = NoTime
    /\ service_index = 0
    /\ timer_active = FALSE
    /\ play_btn_enabled = TRUE
    /\ devices = [d \in DeviceNames |-> FALSE]
    /\ db_devices = << >>
    /\ db_rules = << >>
    /\ outbox = << >>
    /\ saved_patterns = << >>
    /\ session_sent = << >>
    /\ session_events = << >>
    /\ busy_notify = FALSE
    /\ period_end = FALSE
    /\ session_started = FALSE
    /\ completed = NoCompletion
    /\ session_applied = << >>
    /\ ticks = 0
    /\ slow_ticks = 0
    /\ op = Op("__init__", << >>)

\* Nothing called alone, no message in flight, the UI thread idle.
InitApart ==
    /\ inbox = << >>
    /\ ui_turn = "idle"
    /\ rounds = << >>
    /\ assigned_ids = << >>
    /\ dev_updates = EmptyMap
    /\ pattern_log = << >>
    /\ pattern_given = << >>
    /\ queried = NoQuery
    /\ sensitivity = DefaultSensitivity
    /\ to_bot = << >>
    /\ waiting_for_response = FALSE
    /\ last_pattern_info = EmptyMap
    /\ bot_turn = "idle"
    /\ patterns_received = 0
    /\ created_claimed = << >>

Init ==
    /\ InitPanel
    /\ an_patterns = << >>
    /\ an_repeated = EmptyMap
    /\ an_calls = 0
    /\ an_first = [patterns |-> << >>, repeated |-> EmptyMap]
    /\ InitApart
    /\ InitExt

\* ---------------------------------------------------------- environment

\* speed_box and duration_box
Speeds == {1, 10, 60}

Durations == {"24h", "1w"}

\* Rows rules.csv may hold before the model stops accepting new ones.
MaxRules == 1

\* Ticks driven in one session, and how many of them slower than 60x.
MaxTicks == 25

MaxSlowTicks == 1

WideMaxTicks == 2

FilesMaxTicks == 2

\* One day of replay: the recurring file, replayed to the end of a 24 h
\* period and beyond, at 60x after at most MaxSlowTicks ticks at 10x.
EnvDay ==
    [ files |-> {NoFile, File(FileDaily)},
      speeds |-> {10, 60},
      durations |-> {"24h"},
      notify |-> BOOLEAN,
      max_ticks |-> MaxTicks,
      max_slow |-> MaxSlowTicks ]

\* Every input of the panel, for the first ticks of a session.
EnvWide ==
    [ files |-> {NoFile, File(FileDaily), File(FileSparse), File(FileEmpty)},
      speeds |-> Speeds,
      durations |-> Durations,
      notify |-> BOOLEAN,
      max_ticks |-> WideMaxTicks,
      max_slow |-> WideMaxTicks ]

\* Every content of data/generated.csv, replaced between loads, at 60x.
EnvFiles ==
    [ files |-> {NoFile, File(FileEmpty), File(FileSparse), File(FileDaily),
                 File(FileEarly)},
      speeds |-> {60},
      durations |-> {"24h"},
      notify |-> BOOLEAN,
      max_ticks |-> FilesMaxTicks,
      max_slow |-> 0 ]

\* -------------------------------------------------------------- actions

TickAllowed(env, speed) ==
    \/ ~service_running
    \/ paused_for_chatbot
    \/ /\ ticks < env.max_ticks
       /\ speed = 60 \/ slow_ticks < env.max_slow

\* The file matters only to a handler that finds loaded_events empty.
FileInputs(env) == IF loaded_events = << >> THEN env.files ELSE {NoFile}

\* The "load data" button of the learning tab.
LoadCsv(env) ==
    \E file \in env.files :
        Commit(load_csv(Panel, file), Op("load_csv", << >>))

\* The play / pause button.
ToggleService(env) ==
    /\ play_btn_enabled
    /\ \E file \in FileInputs(env), duration \in env.durations :
        Commit(toggle_service(Panel, file, duration),
               Op("toggle_service", << duration >>))

\* The step button.
StepService(env) ==
    \E speed \in env.speeds, chat_notify \in env.notify,
       file \in FileInputs(env), duration \in env.durations :
        /\ TickAllowed(env, speed)
        /\ Commit(step_service(Panel, speed, chat_notify, file, duration),
                  Op("step_service", << duration, speed >>))

\* service_timer.timeout
TimerTick(env) ==
    /\ timer_active
    /\ \E speed \in env.speeds, chat_notify \in env.notify,
          file \in FileInputs(env), duration \in env.durations :
        /\ TickAllowed(env, speed)
        /\ Commit(advance_service(Panel, speed, chat_notify, file, duration),
                  Op("advance_service", << speed >>))

\* message_received: a text from the chatbot, handled on the UI thread.
ChatMessage ==
    \E message \in ChatMessages :
        LET p == _handle_chat_message(Panel, message)
        IN  /\ Len(p.db_rules) <= MaxRules
            /\ Commit(p, Op("_handle_chat_message", message))

NextIn(env) ==
    \/ LoadCsv(env)
    \/ ToggleService(env)
    \/ StepService(env)
    \/ TimerTick(env)
    \/ ChatMessage

Next == NextIn(EnvDay)

Spec == Init /\ [][Next]_vars

NextWide == NextIn(EnvWide)

SpecWide == Init /\ [][NextWide]_vars

NextFiles == NextIn(EnvFiles)

SpecFiles == Init /\ [][NextFiles]_vars

\* ------------------------------------------- analyze_pattern called alone

\* Events a caller may pass, by their calendar fields.
Cal(day, hh, mm, ss, device) ==
    [day |-> day, hh |-> hh, mm |-> mm, ss |-> ss, device |-> device]

CalendarEvents ==
    { Cal(0, 8, 0, 0, GeosilJomyeong),
      Cal(1, 8, 0, 30, GeosilJomyeong),
      Cal(2, 8, 0, 59, GeosilJomyeong),
      Cal(0, 8, 1, 0, GeosilJomyeong),
      Cal(0, 8, 0, 0, Boilleo),
      Cal(1, 8, 0, 30, Boilleo) }

\* Events passed in one call, and direct calls made in one run.
MaxAnalyzed == 4

MaxCalls == 2

RECURSIVE SeqsUpTo(_, _)
SeqsUpTo(S, n) ==
    IF n = 0 THEN { << >> }
    ELSE LET shorter == SeqsUpTo(S, n - 1)
         IN  shorter \cup { Append(q, x) : q \in {r \in shorter : Len(r) = n - 1}, x \in S }

ToEvents(cals) ==
    [i \in 1..Len(cals) |->
        Ev(At(cals[i].day, cals[i].hh, cals[i].mm, cals[i].ss), cals[i].device, "ON")]

\* The list with the elements at i and i + 1 exchanged.
Swap(q, i) ==
    [k \in 1..Len(q) |-> IF k = i THEN q[i + 1] ELSE IF k = i + 1 THEN q[i] ELSE q[k]]

Reorderings(q) == {q} \cup { Swap(q, i) : i \in 1..(Len(q) - 1) }

InitAnalyze ==
    /\ InitPanel
    /\ an_patterns \in SeqsUpTo(CalendarEvents, MaxAnalyzed)
    /\ an_repeated = EmptyMap
    /\ an_calls = 0
    /\ an_first = [patterns |-> << >>, repeated |-> EmptyMap]
    /\ InitApart
    /\ InitExt

\* A caller passes the events, in the same or another order.
CallAnalyze ==
    /\ an_calls < MaxCalls
    /\ \E q \in Reorderings(an_patterns) :
        LET repeated == analyze_pattern(ToEvents(q))
        IN  /\ an_patterns' = q
            /\ an_repeated' = repeated
            /\ an_calls' = an_calls + 1
            /\ an_first' = IF an_calls = 0
                           THEN [patterns |-> q, repeated |-> repeated]
                           ELSE an_first
    /\ UNCHANGED << loaded_events, detected_patterns, sent_patterns, service_running,
                    step_mode, paused_for_chatbot, pending_event, sim_time,
                    sim_end_time, service_index, timer_active, play_btn_enabled,
                    devices, db_devices, db_rules, outbox, saved_patterns,
                    session_sent, session_events, busy_notify, period_end,
                    session_started, completed, session_applied,
                    ticks, slow_ticks, op, thread_vars, rounds, assigned_ids, store_vars, settings_vars, chat_vars, ext_vars >>

NextAnalyze == CallAnalyze

SpecAnalyze == InitAnalyze /\ [][NextAnalyze]_vars

\* --------------------------------------------------------------- claims

TickOps == {"advance_service", "step_service"}

Awaiting == paused_for_chatbot

\* C1: while the session awaits the chatbot's response, a tick (a timer
\* firing of advance_service or a step_service request) leaves
\* service_index and sim_time as they were.
C1_TicksFrozenWhileAwaiting ==
    [][ (Awaiting /\ op'.name \in TickOps)
            => (service_index' = service_index /\ sim_time' = sim_time) ]_vars

\* A step was requested while the session was already awaiting (the step
\* itself sent nothing).
C1_Witness ==
    /\ Awaiting
    /\ op.name = "step_service"
    /\ outbox = << >>
    /\ service_index > 0

\* C2: in one session each (device, time_of_day) key is notified at most
\* once, and sent_patterns holds exactly the keys notified.
C2_AtMostOncePerSession ==
    /\ \A i, j \in 1..Len(session_sent) :
            session_sent[i] = session_sent[j] => i = j
    /\ sent_patterns = {session_sent[i] : i \in 1..Len(session_sent)}

\* Both keys were notified and later events of those keys were applied.
C2_Witness ==
    /\ Len(session_sent) = 2
    /\ service_index = 6
    /\ service_running

\* C3: no pattern-detected message is sent, and pending_event is not
\* replaced, while the session is already awaiting a response.
C3_OneOutstandingNegotiation == ~busy_notify

IsCreateRule(o) == o.name = "_handle_chat_message" /\ o.message = CREATE_RULE

\* C4: CREATE_RULE handled while awaiting appends exactly one rule, whose
\* condition is the HH:MM of the pending event and whose action is its
\* device and value, clears pending_event, leaves the awaiting state and,
\* in continuous mode, restarts the timer.
C4_CreateRulePersistsOne ==
    [][ (Awaiting /\ IsCreateRule(op'))
            => /\ Len(db_rules') = Len(db_rules) + 1
               /\ SubSeq(db_rules', 1, Len(db_rules)) = db_rules
               /\ db_rules'[Len(db_rules')].condition
                      = << "time ==", << (pending_event.timestamp \div 3600) % 24,
                                         (pending_event.timestamp \div 60) % 60 >> >>
               /\ db_rules'[Len(db_rules')].action
                      = << pending_event.device, pending_event.value >>
               /\ pending_event' = NoEvent
               /\ ~paused_for_chatbot'
               /\ (service_running /\ ~step_mode => timer_active') ]_vars

\* Scenario D on the 08:00 key: the rule is stored and replay resumes.
C4_Witness ==
    /\ IsCreateRule(op)
    /\ db_rules = << [id |-> 1, condition |-> << "time ==", << 8, 0 >> >>,
                      action |-> << GeosilJomyeong, "ON" >>, enabled |-> 1] >>
    /\ pending_event = NoEvent
    /\ ~paused_for_chatbot
    /\ timer_active

IsReply(o) == o.name = "_handle_chat_message"

DeclineEffect ==
    /\ db_rules' = db_rules
    /\ pending_event' = NoEvent
    /\ ~paused_for_chatbot'
    /\ (service_running /\ ~step_mode => timer_active')

\* C5 as stated: every message other than CREATE_RULE handled while
\* awaiting persists no rule, discards pending_event, leaves the awaiting
\* state and, in continuous mode, restarts the timer.
C5_AnyOtherMessageDeclines ==
    [][ (Awaiting /\ IsReply(op') /\ op'.message # CREATE_RULE)
            => DeclineEffect ]_vars

\* C5 amended: the same for every message that differs from CREATE_RULE
\* once surrounding whitespace is stripped.
C5_OtherMessageAfterStripDeclines ==
    [][ (Awaiting /\ IsReply(op') /\ Strip(op'.message) # CREATE_RULE)
            => DeclineEffect ]_vars

\* Scenario E: a decline was handled in a session that had notified.
C5_Witness ==
    /\ IsReply(op)
    /\ Strip(op.message) # CREATE_RULE
    /\ session_sent # << >>
    /\ pending_event = NoEvent
    /\ db_rules = << >>
    /\ ~paused_for_chatbot
    /\ timer_active

Occurrences(events, key) ==
    Cardinality({i \in 1..Len(events) :
        /\ events[i].device = key[1]
        /\ (events[i].timestamp \div 3600) % 24 = key[2][1]
        /\ (events[i].timestamp \div 60) % 60 = key[2][2]})

\* C6: a key whose occurrence count in the session's event set is below 3
\* is never notified: every key notified in the session, and every
\* pattern-detected message sent, has at least 3 occurrences.
C6_BelowThresholdNeverNotified ==
    /\ \A i \in 1..Len(session_sent) :
            Occurrences(session_events, session_sent[i]) >= 3
    /\ \A i \in 1..Len(outbox) :
            Occurrences(session_events, << outbox[i][2], outbox[i][3] >>) >= 3

\* The events of the key seen twice were applied with notifications on,
\* and only the recurring key before them was notified.
C6_Witness ==
    /\ service_index = 4
    /\ Len(outbox) = 1
    /\ Occurrences(session_events,
                   << GeosilJomyeongNoSpace, << 8, 0 >> >>) = 2

\* C9: a tick that reaches sim_end_time leaves a new session running from
\* the first event.
C9_RestartAtPeriodEnd ==
    period_end =>
        /\ service_running
        /\ timer_active
        /\ service_index = 0
        /\ sent_patterns = {}
        /\ loaded_events # << >>
        /\ sim_time = loaded_events[1].timestamp

\* C10: pressing the play / pause control while a session is running stops
\* it: not running, timer halted, no negotiation pending.
C10_StopCancels ==
    [][ (service_running /\ op'.name = "toggle_service")
            => (~service_running' /\ ~timer_active' /\ ~paused_for_chatbot') ]_vars

\* Occurrences of (device, hour, minute) among the calendar events passed.
CalCount(cals, device, hm) ==
    Cardinality({i \in 1..Len(cals) :
        cals[i].device = device /\ << cals[i].hh, cals[i].mm >> = hm})

CalKeys(cals, device) ==
    { << cals[i].hh, cals[i].mm >> : i \in {j \in 1..Len(cals) : cals[j].device = device} }

CalRepeated(cals, device) ==
    {hm \in CalKeys(cals, device) : CalCount(cals, device, hm) >= 3}

\* C7: analyze_pattern returns exactly the (device, HH:MM) groups of at
\* least 3 events, seconds discarded, each with its exact count; smaller
\* groups and devices without such a group are absent.
C7_AnalyzeReturnsRepeatedGroups ==
    an_calls > 0 =>
        /\ DOMAIN an_repeated =
              {cals.device : cals \in {an_patterns[i] : i \in 1..Len(an_patterns)}}
                  \cap {d \in DeviceNames : CalRepeated(an_patterns, d) # {}}
        /\ \A d \in DOMAIN an_repeated :
              /\ DOMAIN an_repeated[d] = CalRepeated(an_patterns, d)
              /\ \A hm \in DOMAIN an_repeated[d] :
                    an_repeated[d][hm] = CalCount(an_patterns, d, hm)

\* Scenario A with differing seconds, next to a group that stays below 3.
C7_Witness ==
    /\ an_calls > 0
    /\ Len(an_patterns) = 4
    /\ DOMAIN an_repeated = {GeosilJomyeong}
    /\ DOMAIN an_repeated[GeosilJomyeong] = {<< 8, 0 >>}
    /\ an_repeated[GeosilJomyeong][<< 8, 0 >>] = 3
    /\ \E i \in 1..4 : an_patterns[i].ss = 59
    /\ \E i \in 1..4 : an_patterns[i].device = Boilleo

\* C8: analyze_pattern returns the same mapping for every order of the
\* same events, whatever was called before.
C8_AnalyzeOrderIndependent ==
    an_calls > 0 => an_repeated = an_first.repeated

\* A second call on a reordered list whose result is not empty.
C8_Witness ==
    /\ an_calls = 2
    /\ an_patterns # an_first.patterns
    /\ DOMAIN an_repeated # {}

\* ------------------------------------------- the socket thread and the UI

\* Emissions the queued connection may hold, and ticks of one session.
MaxInbox == 2

ThreadMaxTicks == 2

\* Mutant of receive_message: the socket thread calls the handler itself.
receive_message_Direct(q, message) ==
    [q EXCEPT !.panel = _handle_chat_message(@, message)]

\* MainPanel.receive_message, run by the server thread: the signal is
\* emitted, and the connection to _handle_chat_message queues it for the
\* thread the panel lives in.
receive_message(q, message) == [q EXCEPT !.inbox = Append(@, message)]

\* The server thread received a text.
ReceiveMessage ==
    /\ Len(inbox) < MaxInbox
    /\ \E message \in ChatMessages :
        LET q == receive_message([panel |-> Panel, inbox |-> inbox], message)
        IN  /\ Len(q.panel.db_rules) <= MaxRules
            /\ CommitPanel(q.panel, Op("receive_message", message))
            /\ inbox' = q.inbox
    /\ UNCHANGED << ui_turn, analyze_vars, rounds, assigned_ids, store_vars, settings_vars, chat_vars, ext_vars >>

\* The event loop delivers the oldest emission when the UI thread is idle.
DeliverMessage ==
    /\ ui_turn = "idle"
    /\ inbox # << >>
    /\ LET p == _handle_chat_message(Panel, Head(inbox))
       IN  /\ Len(p.db_rules) <= MaxRules
           /\ CommitPanel(p, Op("_handle_chat_message", Head(inbox)))
    /\ inbox' = Tail(inbox)
    /\ UNCHANGED << ui_turn, analyze_vars, rounds, assigned_ids, store_vars, settings_vars, chat_vars, ext_vars >>

\* The play / pause button, when the UI thread is idle.
PressPlay ==
    /\ ui_turn = "idle"
    /\ play_btn_enabled
    /\ Commit(toggle_service(Panel, File(FileDaily), "24h"),
              Op("toggle_service", << "24h" >>))

\* service_timer.timeout: advance_service passes its guard and advances
\* the clock (60x, notifications on).
BeginTick ==
    /\ ui_turn = "idle"
    /\ timer_active
    /\ service_running /\ sim_time # NoTime /\ ~paused_for_chatbot
    /\ ticks < ThreadMaxTicks
    /\ CommitPanel(AdvanceClock(Panel, 60), Op("advance_service", << >>))
    /\ ui_turn' = "advance_service"
    /\ UNCHANGED << inbox, analyze_vars, rounds, assigned_ids, store_vars, settings_vars, chat_vars, ext_vars >>

\* advance_service applies the next due event.
ApplyDue ==
    /\ ui_turn = "advance_service"
    /\ EventDue(Panel)
    /\ CommitPanel(ReplayOne(Panel, TRUE), Op("advance_service", << >>))
    /\ UNCHANGED << thread_vars, analyze_vars, rounds, assigned_ids, store_vars, settings_vars, chat_vars, ext_vars >>

\* advance_service leaves its loop, runs the end-of-period check, returns.
EndTick ==
    /\ ui_turn = "advance_service"
    /\ ~EventDue(Panel)
    /\ CommitPanel(EndOfPeriod(Panel, NoFile, "24h"), Op("advance_service", << >>))
    /\ ui_turn' = "idle"
    /\ UNCHANGED << inbox, analyze_vars, rounds, assigned_ids, store_vars, settings_vars, chat_vars, ext_vars >>

NextThreads ==
    \/ ReceiveMessage
    \/ DeliverMessage
    \/ PressPlay
    \/ BeginTick
    \/ ApplyDue
    \/ EndTick

SpecThreads == Init /\ [][NextThreads]_vars

\* ------------------------------------------------ sessions run to the end

\* The keys of the last two sessions the end-of-period check ended.
LastTwo(q) == IF Len(q) > 2 THEN SubSeq(q, Len(q) - 1, Len(q)) ELSE q

RoundsAfter(p) ==
    IF p.period_end THEN LastTwo(Append(rounds, p.completed.sent)) ELSE rounds

\* The panel's buttons, timer and chatbot over FileDaily, 24 h periods and
\* notifications on, with the ended sessions recorded.
RoundCommit(p, o) ==
    /\ CommitPanel(p, o)
    /\ rounds' = RoundsAfter(p)
    /\ UNCHANGED << analyze_vars, thread_vars, assigned_ids, store_vars, settings_vars, chat_vars, ext_vars >>

RoundPlay ==
    /\ play_btn_enabled
    /\ RoundCommit(toggle_service(Panel, File(FileDaily), "24h"),
                   Op("toggle_service", << "24h" >>))

RoundStep ==
    \E speed \in EnvDay.speeds :
        /\ TickAllowed(EnvDay, speed)
        /\ RoundCommit(step_service(Panel, speed, TRUE, File(FileDaily), "24h"),
                       Op("step_service", << "24h" >>))

RoundTick ==
    /\ timer_active
    /\ \E speed \in EnvDay.speeds :
        /\ TickAllowed(EnvDay, speed)
        /\ RoundCommit(advance_service(Panel, speed, TRUE, File(FileDaily), "24h"),
                       Op("advance_service", << >>))

RoundReply ==
    \E message \in ChatMessages :
        LET p == _handle_chat_message(Panel, message)
        IN  /\ Len(p.db_rules) <= MaxRules
            /\ RoundCommit(p, Op("_handle_chat_message", message))

NextRounds ==
    \/ RoundPlay
    \/ RoundStep
    \/ RoundTick
    \/ RoundReply

SpecRounds == Init /\ [][NextRounds]_vars

\* ------------------------------------------------- the rule store alone

\* Calls of save_rule in one run.
MaxSaved == 3

\* SmartHomeCSV.clear_rules: the header alone is left.
clear_rules(rows) == << >>

RuleTexts ==
    { [condition |-> << "time ==", << 8, 0 >> >>, action |-> << GeosilJomyeong, "ON" >>],
      [condition |-> << "time ==", << 8, 15 >> >>, action |-> << ModeunJomyeong, "OFF" >>],
      [condition |-> << "time ==", << 18, 0 >> >>, action |-> << Boilleo, "jaesil" >>] }

\* rules.csv as an earlier run may have left it.
StoredRules ==
    { << >>,
      << [id |-> 1, condition |-> << "time ==", << 8, 0 >> >>,
          action |-> << GeosilJomyeong, "ON" >>, enabled |-> 1] >> }

InitRules ==
    /\ loaded_events = << >>
    /\ detected_patterns = EmptyMap
    /\ sent_patterns = {}
    /\ service_running = FALSE
    /\ step_mode = FALSE
    /\ paused_for_chatbot = FALSE
    /\ pending_event = NoEvent
    /\ sim_time = NoTime
    /\ sim_end_time = NoTime
    /\ service_index = 0
    /\ timer_active = FALSE
    /\ play_btn_enabled = TRUE
    /\ devices = [d \in DeviceNames |-> FALSE]
    /\ db_devices = << >>
    /\ db_rules \in StoredRules
    /\ outbox = << >>
    /\ saved_patterns = << >>
    /\ session_sent = << >>
    /\ session_events = << >>
    /\ busy_notify = FALSE
    /\ period_end = FALSE
    /\ session_started = FALSE
    /\ completed = NoCompletion
    /\ session_applied = << >>
    /\ ticks = 0
    /\ slow_ticks = 0
    /\ op = Op("__init__", << >>)
    /\ an_patterns = << >>
    /\ an_repeated = EmptyMap
    /\ an_calls = 0
    /\ an_first = [patterns |-> << >>, repeated |-> EmptyMap]
    /\ InitApart
    /\ InitExt

SaveRule ==
    /\ Len(assigned_ids) < MaxSaved
    /\ \E text \in RuleTexts :
        LET rows == save_rule(db_rules, text.condition, text.action)
        IN  /\ CommitPanel([Panel EXCEPT !.db_rules = rows], Op("save_rule", << >>))
            /\ assigned_ids' = Append(assigned_ids, rows[Len(rows)].id)
    /\ UNCHANGED << analyze_vars, thread_vars, rounds, store_vars, settings_vars, chat_vars, ext_vars >>

ClearRules ==
    /\ CommitPanel([Panel EXCEPT !.db_rules = clear_rules(@)], Op("clear_rules", << >>))
    /\ UNCHANGED << analyze_vars, thread_vars, rounds, assigned_ids, store_vars, settings_vars, chat_vars, ext_vars >>

NextRules == SaveRule \/ ClearRules

SpecRules == InitRules /\ [][NextRules]_vars

\* ----------------------------------------------- apply_event called alone

\* Events passed to apply_event: the wildcard, two lights, two other
\* devices and a name that is not registered; "jaesil" is the boiler's
\* occupancy mode, a value that is neither ON nor OFF.
AppliedDevices ==
    { ModeunJomyeong, GeosilJomyeong, JubangJomyeong, Eeokeon, Boilleo,
      GeosilJomyeongNoSpace }

AppliedValues == {"ON", "OFF", "jaesil"}

AppliedEvents ==
    { Ev(At(0, 8, 0, 0), d, v) : d \in AppliedDevices, v \in AppliedValues }

\* One call of apply_event; again tells that the call before it passed
\* the same event.
ApplyEvent ==
    \E event \in AppliedEvents, chat_notify \in BOOLEAN :
        Commit(apply_event(Panel, event, chat_notify),
               [name |-> "apply_event", message |-> event,
                again |-> (op.name = "apply_event" /\ op.message = event)])

NextApply == ApplyEvent

SpecApply == Init /\ [][NextApply]_vars

StartOps == {"toggle_service", "step_service"}

Lights ==
    { GeosilJomyeong, JubangJomyeong, Chimsil1Jomyeong, Chimsil2Jomyeong,
      Chimsil3Jomyeong, HyeongwanJomyeong }

\* C12: apply_event with the all-lights wildcard and value v leaves every
\* registered light at state (v = "ON") and every other device as it was.
C12_WildcardSetsEveryLight ==
    [][ (op'.name = "apply_event" /\ op'.message.device = ModeunJomyeong)
            => \A d \in DeviceNames :
                  devices'[d] = IF d \in Lights
                                THEN op'.message.value = "ON"
                                ELSE devices[d] ]_vars

\* Scenario C mirrored: the wildcard switched every light on while the
\* boiler stayed on and the air conditioner off.
C12_Witness ==
    /\ op.name = "apply_event"
    /\ op.message.device = ModeunJomyeong
    /\ op.message.value = "ON"
    /\ \A d \in Lights : devices[d]
    /\ devices[Boilleo]
    /\ ~devices[Eeokeon]
    /\ ~devices[CCTV]

\* C13: apply_event called again with the event of the call before it
\* leaves every device state, in the registry and in devices.csv, as the
\* first call left it.
C13_ApplyTwiceIsApplyOnce ==
    [][ (op.name = "apply_event" /\ op'.name = "apply_event"
            /\ op'.message = op.message)
            => (devices' = devices /\ db_devices' = db_devices) ]_vars

\* An ON event for one light was applied twice in a row.
C13_Witness ==
    /\ op.name = "apply_event"
    /\ op.again
    /\ op.message.device = GeosilJomyeong
    /\ op.message.value = "ON"
    /\ devices[GeosilJomyeong]
    /\ ~devices[JubangJomyeong]

\* C14: within a session service_index never decreases, and the events
\* the replay loop has applied in the session are exactly the events at
\* the indices below service_index, each once and in order.
C14_CursorMonotonicAppliedOnce ==
    [][ /\ (service_index' >= service_index \/ session_started')
        /\ service_index' <= Len(loaded_events')
        /\ session_applied' = SubSeq(loaded_events', 1, service_index') ]_vars

\* C15: within a session sim_time never decreases, and the end-of-period
\* check ends a session only when sim_time has reached sim_end_time.
C15_ClockMonotonicEndsAtEnd ==
    [][ /\ (sim_time' >= sim_time \/ session_started')
        /\ period_end' =>
              /\ completed'.sim_end_time # NoTime
              /\ completed'.sim_time >= completed'.sim_end_time ]_vars

\* A 24 h session was replayed to its end, past it by a 10x tick, and
\* restarted.
C15_Witness ==
    /\ period_end
    /\ service_running
    /\ completed.sim_time = completed.sim_end_time + 10 * Minute
    /\ sim_time = loaded_events[1].timestamp
    /\ sim_time < completed.sim_time

\* C16: paused_for_chatbot goes from true to false only in a step of
\* _handle_chat_message.
C16_ResumedOnlyByResponse ==
    [][ (paused_for_chatbot /\ ~paused_for_chatbot')
            => op'.name = "_handle_chat_message" ]_vars

\* C17: while the session awaits a response the service timer is stopped.
C17_TimerStoppedWhileAwaiting == paused_for_chatbot => ~timer_active

\* A timer tick of a continuous session raised the pause.
C17_Witness ==
    /\ paused_for_chatbot
    /\ op.name = "advance_service"
    /\ service_running
    /\ ~step_mode
    /\ outbox # << >>

\* C18: a step of the server thread (receive_message) changes none of
\* pending_event, paused_for_chatbot, the rules, the timer and the cursor,
\* and _handle_chat_message runs only from and to an idle UI thread, never
\* between the steps of advance_service.
C18_MessageHandledOnUiTurn ==
    [][ /\ op'.name = "receive_message"
              => /\ pending_event' = pending_event
                 /\ paused_for_chatbot' = paused_for_chatbot
                 /\ db_rules' = db_rules
                 /\ timer_active' = timer_active
                 /\ service_index' = service_index
                 /\ ui_turn' = ui_turn
        /\ op'.name = "_handle_chat_message"
              => (ui_turn = "idle" /\ ui_turn' = "idle") ]_vars

\* CREATE_RULE arrived while advance_service was inside its loop, after
\* the event it had just applied raised the pause: the message waits and
\* the negotiation is untouched.
C18_Witness ==
    /\ ui_turn = "advance_service"
    /\ op.name = "receive_message"
    /\ inbox = << CREATE_RULE >>
    /\ paused_for_chatbot
    /\ pending_event # NoEvent
    /\ db_rules = << >>
    /\ EventDue(Panel)

KeysOf(sent) == {sent[i] : i \in 1..Len(sent)}

NoKeyTwice(sent) == \A i, j \in 1..Len(sent) : sent[i] = sent[j] => i = j

\* C19: of two sessions over the same events, each replayed to its end,
\* the second notified exactly the keys the first notified, and neither
\* notified a key twice.
C19_SecondSessionSameKeys ==
    /\ \A i \in 1..Len(rounds) : NoKeyTwice(rounds[i])
    /\ Len(rounds) = 2 => KeysOf(rounds[1]) = KeysOf(rounds[2])

\* Two sessions were replayed to their end and the second notified both
\* recurring keys.
C19_Witness ==
    /\ Len(rounds) = 2
    /\ Len(rounds[2]) = 2
    /\ period_end

\* C20: every id save_rule assigns is greater than every id it assigned
\* before, over any sequence of save_rule and clear_rules.
C20_RuleIdsMonotonic ==
    \A i, j \in 1..Len(assigned_ids) :
        i < j => assigned_ids[i] < assigned_ids[j]

\* --------------------------------------------- the device table alone

\* Devices, statuses and types given to update_device_status directly.
StoredDevices == {GeosilJomyeong, Eeokeon, Boilleo}

DeviceStatuses == {"ON", "OFF"}

DeviceTypes == {NoType, "light"}

\* db.update_device_status(device, status, type_) on a table that starts
\* empty, as _create_csv_files leaves it.
UpdateDeviceStatus ==
    \E device \in StoredDevices, status \in DeviceStatuses, type_ \in DeviceTypes :
        /\ CommitPanel([Panel EXCEPT !.db_devices =
                            update_device_status(@, device, status, type_)],
                       Op("update_device_status",
                          [device |-> device, status |-> status, type |-> type_]))
        /\ dev_updates' = Put(dev_updates, device, status)
        /\ UNCHANGED << analyze_vars, thread_vars, rounds, assigned_ids,
                        pattern_log, pattern_given, queried, settings_vars, chat_vars, ext_vars >>

NextDevices == UpdateDeviceStatus

SpecDevices == Init /\ [][NextDevices]_vars

RowsOf(rows, device) == SelectSeq(rows, LAMBDA r : r.name = device)

\* C21: update_device_status is an upsert. After any sequence of calls the
\* table has exactly one row for each name updated and none for the others,
\* get_device_status returns the status of the latest update of that name
\* and None for a name never updated, and a call leaves the rows of the
\* other names as they were.
C21_UpdateDeviceStatusIsUpsert ==
    [][ op'.name = "update_device_status"
            => /\ \A d \in DeviceNames :
                    /\ get_device_status(db_devices', d) = Get(dev_updates', d, NoStatus)
                    /\ Len(RowsOf(db_devices', d)) =
                            IF d \in DOMAIN dev_updates' THEN 1 ELSE 0
               /\ \A d \in DeviceNames \ {op'.message.device} :
                    RowsOf(db_devices', d) = RowsOf(db_devices, d) ]_vars

\* A device was updated a second time: its row keeps the type of the
\* earlier call and has the status of this one, and other rows exist.
C21_Witness ==
    /\ op.name = "update_device_status"
    /\ op.message.type = NoType
    /\ op.message.status = "OFF"
    /\ Len(db_devices) = 3
    /\ \E i \in 1..Len(db_devices) :
        /\ db_devices[i].name = op.message.device
        /\ db_devices[i].type = "light"
        /\ db_devices[i].status = "OFF"

\* --------------------------------------------- the pattern log alone

\* Seconds and microseconds of the datetimes given, and rows saved.
MaxSecond == 1

MaxLogged == 3

Microseconds == {0, 500000}

LogTimes == {Datetime(s, u) : s \in 0..MaxSecond, u \in Microseconds}

\* db.save_pattern(timestamp, device, action) with a datetime, as
\* device_clicked calls it with datetime.now().
SavePattern ==
    /\ Len(pattern_log) < MaxLogged
    /\ \E timestamp \in LogTimes :
        /\ pattern_log' = save_pattern(pattern_log, timestamp, GeosilJomyeong, "ON")
        /\ pattern_given' = Append(pattern_given,
                                   [timestamp |-> timestamp,
                                    device |-> GeosilJomyeong,
                                    action |-> "ON"])
    /\ queried' = NoQuery
    /\ UNCHANGED << panel_vars, analyze_vars, thread_vars, rounds, assigned_ids,
                    dev_updates, settings_vars, chat_vars, ext_vars >>

\* db.get_patterns(start_date, end_date) with datetimes
GetPatterns ==
    /\ \E start_date \in LogTimes, end_date \in LogTimes :
        queried' = [called |-> TRUE, start_date |-> start_date, end_date |-> end_date,
                    result |-> get_patterns(pattern_log, start_date, end_date)]
    /\ UNCHANGED << panel_vars, analyze_vars, thread_vars, rounds, assigned_ids,
                    dev_updates, pattern_log, pattern_given, settings_vars, chat_vars, ext_vars >>

NextPatterns == SavePattern \/ GetPatterns

SpecPatterns == Init /\ [][NextPatterns]_vars

\* a <= b on datetimes
NotAfter(a, b) ==
    \/ a.second < b.second
    \/ a.second = b.second /\ a.microsecond <= b.microsecond

CountRows(rows, row) == Cardinality({i \in 1..Len(rows) : rows[i] = row})

RowSet(rows) == {rows[i] : i \in 1..Len(rows)}

NonDecreasing(rows) ==
    \A i, j \in 1..Len(rows) : i < j => rows[i].timestamp <= rows[j].timestamp

\* C22 as stated: get_patterns(start, end) returns exactly the saved
\* entries whose timestamp t, as given to save_pattern, satisfies
\* start <= t <= end, each once, ordered by non-decreasing timestamp.
C22_ReturnsEntriesInRange ==
    queried.called
        => /\ NonDecreasing(queried.result)
           /\ \A row \in RowSet(pattern_log) \cup RowSet(queried.result) :
                CountRows(queried.result, row) =
                    Cardinality({i \in 1..Len(pattern_log) :
                        /\ pattern_log[i] = row
                        /\ NotAfter(queried.start_date, pattern_given[i].timestamp)
                        /\ NotAfter(pattern_given[i].timestamp, queried.end_date)})

\* C22, amended: get_patterns(start, end) returns exactly the saved entries
\* whose timestamp, cut to whole seconds as save_pattern stores it, lies
\* between start and end cut to whole seconds (both inclusive), each once,
\* ordered by non-decreasing stored timestamp.
C22_ReturnsEntriesInRangeOfSeconds ==
    queried.called
        => /\ NonDecreasing(queried.result)
           /\ \A row \in RowSet(pattern_log) \cup RowSet(queried.result) :
                CountRows(queried.result, row) =
                    IF /\ strftime_YmdHMS(queried.start_date) <= row.timestamp
                       /\ row.timestamp <= strftime_YmdHMS(queried.end_date)
                    THEN CountRows(pattern_log, row)
                    ELSE 0

\* A query over three saved entries, two of them equal, saved out of
\* order, returned one of the equal pair twice and left one entry out.
C22_Witness ==
    /\ queried.called
    /\ Len(pattern_log) = 3
    /\ pattern_log[1].timestamp > pattern_log[2].timestamp
    /\ pattern_log[2] = pattern_log[3]
    /\ queried.result = << pattern_log[2], pattern_log[3] >>
    /\ queried.end_date = Datetime(0, 0)

\* C23: within a tick, once applying an event raised a notification (the
\* session is awaiting), no further event is applied in that tick: an
\* iteration of the replay loop applies an event only while the session is
\* not awaiting.
C23_NoEventAppliedAfterNotification ==
    [][ (ui_turn = "advance_service" /\ Len(session_applied') = Len(session_applied) + 1)
            => ~paused_for_chatbot ]_vars

\* ------------------------------------------------- the start of a session

StartMaxTicks == 1

\* Both durations and both kinds of file, for the first tick of a session.
EnvStart ==
    [ files |-> {NoFile, File(FileDaily), File(FileSparse)},
      speeds |-> {10, 60},
      durations |-> Durations,
      notify |-> BOOLEAN,
      max_ticks |-> StartMaxTicks,
      max_slow |-> StartMaxTicks ]

NextStart == NextIn(EnvStart)

SpecStart == Init /\ [][NextStart]_vars

SelectedPeriod(duration) == IF duration = "24h" THEN 24 * 3600 ELSE 7 * 24 * 3600

\* C24: a start (toggle_service from the stopped state, or step_service
\* with no session running, with events loaded) makes the session running
\* with detected_patterns = analyze_pattern(loaded_events) and sim_end_time
\* = the first event's timestamp + 24 hours or + 7 days as selected;
\* toggle_service leaves service_index = 0, sent_patterns = {}, not
\* awaiting, and sim_time = the first event's timestamp; step_service
\* leaves what its one tick makes of those values: the clock one speed step
\* after the first timestamp, the events from index 0 to the cursor
\* applied, sent_patterns holding the keys that tick notified, and awaiting
\* exactly when it notified.
C24_StartSetsSessionValues ==
    [][ (~service_running /\ op'.name \in StartOps /\ loaded_events' # << >>)
            => LET first == loaded_events'[1].timestamp
               IN  /\ service_running'
                   /\ detected_patterns' = analyze_pattern(loaded_events')
                   /\ sim_end_time' = first + SelectedPeriod(op'.message[1])
                   /\ op'.name = "toggle_service"
                        => /\ service_index' = 0
                           /\ sent_patterns' = {}
                           /\ ~paused_for_chatbot'
                           /\ sim_time' = first
                           /\ ~step_mode'
                   /\ op'.name = "step_service"
                        => /\ \E speed \in Speeds : sim_time' = first + speed * 60
                           /\ session_applied' = SubSeq(loaded_events', 1, service_index')
                           /\ sent_patterns' = KeysOf(session_sent')
                           /\ paused_for_chatbot' = (outbox' # << >>)
                           /\ step_mode' ]_vars

\* A session of one week was started by the play button after an earlier
\* session had applied events and notified.
C24_Witness ==
    /\ op.name = "toggle_service"
    /\ op.message = << "1w" >>
    /\ session_started
    /\ service_index = 0
    /\ sim_end_time = sim_time + 7 * 24 * 3600
    /\ db_rules # << >>
    /\ DOMAIN detected_patterns # {}

\* ------------------------------------------- a timeout after the stop

\* A timeout of service_timer delivered after the timer was stopped:
\* advance_service is called while no session is running.
LateTimeout(env) ==
    /\ ~timer_active
    /\ ~service_running
    /\ ticks < env.max_ticks
    /\ \E speed \in env.speeds, chat_notify \in env.notify,
          file \in FileInputs(env), duration \in env.durations :
        Commit(advance_service(Panel, speed, chat_notify, file, duration),
               Op("advance_service", << speed >>))

NextLate == NextIn(EnvFiles) \/ LateTimeout(EnvFiles)

SpecLate == Init /\ [][NextLate]_vars

\* C25: advance_service called while no session is running changes
\* nothing: sim_time, service_index, sent_patterns, pending_event, the
\* device states and the stored devices, rules and pattern log are as
\* before, and nothing is sent.
C25_TickWhileStoppedIsNoOp ==
    [][ (~service_running /\ op'.name = "advance_service")
            => /\ sim_time' = sim_time
               /\ sim_end_time' = sim_end_time
               /\ service_index' = service_index
               /\ sent_patterns' = sent_patterns
               /\ pending_event' = pending_event
               /\ devices' = devices
               /\ db_devices' = db_devices
               /\ db_rules' = db_rules
               /\ saved_patterns' = << >>
               /\ outbox' = << >>
               /\ ~service_running'
               /\ loaded_events' = loaded_events ]_vars

\* advance_service ran on a stopped session that has a clock and events
\* still to apply.
C25_Witness ==
    /\ op.name = "advance_service"
    /\ ~service_running
    /\ sim_time # NoTime
    /\ service_index > 0
    /\ service_index < Len(loaded_events)

\* The first position of an event in the rows of a file, 0 when absent.
RECURSIVE PositionIn(_, _, _)
PositionIn(rows, event, i) ==
    IF i > Len(rows) THEN 0
    ELSE IF rows[i] = event THEN i
    ELSE PositionIn(rows, event, i + 1)

\* C26: within a session events are applied in timestamp order: of two
\* events applied in the same session the one with the earlier timestamp
\* is applied first, and two with equal timestamps are applied in the
\* order they have in the file.
C26_AppliedInTimestampOrder ==
    \A i, j \in 1..Len(session_applied) :
        i < j =>
            /\ session_applied[i].timestamp <= session_applied[j].timestamp
            /\ \A file \in EnvFiles.files :
                LET a == PositionIn(file.rows, session_applied[i], 1)
                    b == PositionIn(file.rows, session_applied[j], 1)
                IN  (/\ session_applied[i].timestamp = session_applied[j].timestamp
                     /\ a # 0 /\ b # 0)
                        => a <= b

\* ------------------------------------------------- the sensitivity setting

\* Values the user gives sensitivity_spin (its range is 1..10).
Sensitivities == {2, 3, 4}

\* The spin box of the settings tab is changed.
SetSensitivity ==
    \E value \in Sensitivities :
        /\ value # sensitivity
        /\ sensitivity' = value
        /\ CommitPanel(Panel, Op("sensitivity_spin", value))
        /\ UNCHANGED << analyze_vars, thread_vars, rounds, assigned_ids, store_vars, chat_vars, ext_vars >>

NextSettings == NextIn(EnvStart) \/ SetSensitivity

SpecSettings == Init /\ [][NextSettings]_vars

\* C27: the threshold is the configured sensitivity (default 3): when a
\* session starts, a (device, time of day) group of the loaded events is in
\* detected_patterns exactly when its occurrence count is at least the
\* value of the sensitivity setting.
C27_DetectedAtConfiguredThreshold ==
    [][ session_started'
            => \A i \in 1..Len(loaded_events') :
                LET device == loaded_events'[i].device
                    time_key == strftime_HM(loaded_events'[i].timestamp)
                IN  (Get(Get(detected_patterns', device, EmptyMap), time_key, 0) # 0)
                        <=> (Occurrences(loaded_events', << device, time_key >>)
                                >= sensitivity') ]_vars

\* C28: the mapping apply_event consults is that of the events currently
\* loaded: while a session exists, detected_patterns =
\* analyze_pattern(loaded_events), also after load_csv replaced
\* loaded_events.
C28_DetectedPatternsOfLoadedEvents ==
    service_running => detected_patterns = analyze_pattern(loaded_events)

\* --------------------------------------------------- notifications off

\* One day of replay with the notification checkbox unchecked.
EnvQuiet == [EnvDay EXCEPT !.notify = {FALSE}]

NextQuiet == NextIn(EnvQuiet)

SpecQuiet == Init /\ [][NextQuiet]_vars

\* C29: with the notification checkbox off at every apply_event, no
\* pattern-detected message is sent, sent_patterns stays empty, the session
\* never awaits the chatbot, and a session the period check ended ran to
\* the end of its period having notified nothing.
C29_NotificationsOffNeverPause ==
    /\ \A i \in 1..Len(outbox) : outbox[i][1] # PatternMessage(<< >>, << >>, "")[1]
    /\ sent_patterns = {}
    /\ session_sent = << >>
    /\ ~paused_for_chatbot
    /\ pending_event = NoEvent
    /\ period_end => /\ completed.sent = << >>
                     /\ completed.sim_time >= completed.sim_end_time

\* A session over events with detected patterns ran to the end of its
\* period and was restarted, its events applied.
C29_Witness ==
    /\ period_end
    /\ DOMAIN detected_patterns # {}
    /\ completed.sim_time >= completed.sim_end_time
    /\ completed.sent = << >>
    /\ db_devices # << >>

\* C30: after apply_event the device table holds, for every registered
\* device, the status "ON" if its state is true and "OFF" otherwise, and
\* the handler appended exactly one pattern-log row, that of the applied
\* event (timestamp, device, value).
C30_StorageMirrorsStateAndLogsEvent ==
    [][ op'.name = "apply_event"
            => /\ \A d \in DeviceNames :
                    get_device_status(db_devices', d) =
                        (IF devices'[d] THEN "ON" ELSE "OFF")
               /\ saved_patterns' = << [timestamp |-> op'.message.timestamp,
                                        device |-> op'.message.device,
                                        action |-> op'.message.value] >> ]_vars

\* An event for one light was applied: the table has the status of that
\* light, of the lights an earlier wildcard event switched on, and of the
\* devices no event targeted.
C30_Witness ==
    /\ op.name = "apply_event"
    /\ op.message.device = GeosilJomyeong
    /\ op.message.value = "OFF"
    /\ Len(db_devices) = Len(DeviceList)
    /\ get_device_status(db_devices, GeosilJomyeong) = "OFF"
    /\ get_device_status(db_devices, JubangJomyeong) = "ON"
    /\ get_device_status(db_devices, Boilleo) = "OFF"

\* C31: apply_event for an event whose device is neither a registered name
\* nor the all-lights wildcard completes (its storing and logging are done)
\* and leaves every device state as it was.
C31_UnknownDeviceChangesNoState ==
    [][ (/\ op'.name = "apply_event"
         /\ op'.message.device \notin DeviceNames
         /\ op'.message.device # ModeunJomyeong)
            => /\ devices' = devices
               /\ Len(saved_patterns') = 1
               /\ \A d \in DeviceNames :
                    get_device_status(db_devices', d) = OnOff(devices[d]) ]_vars

\* An ON event for the unregistered spelling of a light's name was applied
\* while that light was off and another light on.
C31_Witness ==
    /\ op.name = "apply_event"
    /\ op.message.device = GeosilJomyeongNoSpace
    /\ op.message.value = "ON"
    /\ ~devices[GeosilJomyeong]
    /\ devices[JubangJomyeong]

\* C32: in single-step mode the clock and the cursor move only by step
\* requests: a step request made in single-step mode, or starting it,
\* leaves the continuous timer stopped, and so does a chatbot response
\* handled in single-step mode.
C32_StepModeTimerStopped ==
    [][ (\/ op'.name = "step_service" /\ (step_mode \/ ~service_running)
         \/ op'.name = "_handle_chat_message" /\ step_mode)
            => ~timer_active' ]_vars

\* The speed selected when the last tick was driven.
TickSpeed(o) == IF o.name = "step_service" THEN o.message[2] ELSE o.message[1]

\* C33: a tick (timer firing or step request) on a session that is running
\* and not awaiting advances sim_time by the selected speed (1, 10 or 60)
\* times one minute, once; on the tick that ends the period that advanced
\* time is the time the ended session reached.
C33_TickAdvancesBySpeedMinutes ==
    [][ (/\ service_running /\ ~paused_for_chatbot /\ sim_time # NoTime
         /\ op'.name \in TickOps)
            => /\ TickSpeed(op') \in Speeds
               /\ IF period_end'
                  THEN completed'.sim_time = sim_time + TickSpeed(op') * 60
                  ELSE sim_time' = sim_time + TickSpeed(op') * 60 ]_vars

\* The timer drove a tick at 10x on a running session after a tick at 60x.
C33_Witness ==
    /\ op.name = "advance_service"
    /\ op.message = << 10 >>
    /\ service_running
    /\ ticks = 2
    /\ sim_time = session_events[1].timestamp + 70 * 60

\* ------------------------------------------- the panel and SmartChatBot

MaxPrompts == 3

ChatMaxTicks == 2

PATTERN_PREFIX == "paeteon gamji:"

\* str.split(" ") on a text given as tokens: the words between the spaces.
RECURSIVE SplitSpace(_, _)
SplitSpace(text, word) ==
    IF text = << >> THEN << word >>
    ELSE IF Head(text) = " "
    THEN << word >> \o SplitSpace(Tail(text), << >>)
    ELSE SplitSpace(Tail(text), Append(word, Head(text)))

\* The words of "{device} {HH:MM} {value}", the text of a pattern message
\* after its prefix.
PatternParts(message) ==
    SplitSpace(message[2], << >>) \o << << ToString(message[3]) >>, << message[4] >> >>

\* SmartChatBot as one record; sent collects what a handler sends to the panel.
Bot ==
    [waiting_for_response |-> waiting_for_response,
     last_pattern_info |-> last_pattern_info,
     sent |-> << >>]

_handle_pattern_detection(b, message) ==
    LET parts == PatternParts(message)
    IN  IF Len(parts) < 3 THEN b
        ELSE [b EXCEPT !.last_pattern_info =
                            [device |-> parts[1], time |-> parts[2], action |-> parts[3]],
                       !.waiting_for_response = TRUE]

\* SmartChatBot.receive_message, run by the chatbot's server thread.
SmartChatBot_receive_message(b, message) ==
    IF message[1] = PATTERN_PREFIX
    THEN _handle_pattern_detection(b, message)
    ELSE b

Affirmative == { << "ne" >>, << "yes" >>, << "jota" >>, << "geurae" >>, << "eung" >> }

\* Mutant of _handle_pattern_response: any answer sends CREATE_RULE.
_handle_pattern_response_AnyText(b, response) ==
    [b EXCEPT !.sent = Append(@, CREATE_RULE)]

_handle_pattern_response(b, response) ==
    IF response \in Affirmative
    THEN [b EXCEPT !.sent = Append(@, CREATE_RULE)]
    ELSE b

\* process_user_input up to its assignment of waiting_for_response: the
\* texts here are no device command and no information request.
process_user_input(b, text) ==
    LET text_lower == Lower(text)
    IN  IF b.waiting_for_response
        THEN _handle_pattern_response(b, text_lower)
        ELSE b

\* What the user types or presses: the two quick-reply buttons.
UserTexts == { << "ne" >>, << "aniyo" >> }

PatternsIn(messages) == SelectSeq(messages, LAMBDA m : m[1] = PATTERN_PREFIX)

\* A panel handler's step: what it sent is on its way to the chatbot's port.
CommitChat(p, o) ==
    /\ CommitPanel(p, o)
    /\ to_bot' = to_bot \o p.outbox
    /\ UNCHANGED << analyze_vars, ui_turn, rounds, assigned_ids, store_vars,
                    settings_vars, ext_vars, waiting_for_response, last_pattern_info,
                    bot_turn, patterns_received, created_claimed >>

\* The play / pause button of the panel.
ChatPlay ==
    /\ play_btn_enabled
    /\ CommitChat(toggle_service(Panel, File(FileDaily), "24h"),
                  Op("toggle_service", << "24h" >>))
    /\ UNCHANGED inbox

\* service_timer.timeout at 60x with the notification box checked.
ChatTick ==
    /\ timer_active
    /\ ~service_running \/ paused_for_chatbot \/ ticks < ChatMaxTicks
    /\ patterns_received + Len(PatternsIn(to_bot)) < MaxPrompts
    /\ CommitChat(advance_service(Panel, 60, TRUE, File(FileDaily), "24h"),
                  Op("advance_service", << 60 >>))
    /\ UNCHANGED inbox

\* The panel's event loop delivers the oldest text the chatbot sent.
ChatDeliver ==
    /\ inbox # << >>
    /\ CommitChat(_handle_chat_message(Panel, Head(inbox)),
                  Op("_handle_chat_message", Head(inbox)))
    /\ inbox' = Tail(inbox)

\* The chatbot's server thread receives the oldest text the panel sent.
BotReceive ==
    /\ to_bot # << >>
    /\ LET b == SmartChatBot_receive_message(Bot, Head(to_bot))
       IN  /\ waiting_for_response' = b.waiting_for_response
           /\ last_pattern_info' = b.last_pattern_info
           /\ patterns_received' =
                IF Head(to_bot)[1] = PATTERN_PREFIX THEN patterns_received + 1
                ELSE patterns_received
    /\ to_bot' = Tail(to_bot)
    /\ CommitPanel(Panel, Op("receive_message", Head(to_bot)))
    /\ UNCHANGED << analyze_vars, thread_vars, rounds, assigned_ids, store_vars,
                    settings_vars, ext_vars, bot_turn, created_claimed >>

\* The user answers in the chatbot window: process_user_input runs up to
\* its assignment of waiting_for_response.
UserReply ==
    /\ bot_turn = "idle"
    /\ \E text \in UserTexts :
        LET b == process_user_input(Bot, text)
        IN  /\ inbox' = inbox \o b.sent
            /\ created_claimed' =
                 IF b.sent # << >> THEN Append(created_claimed, last_pattern_info)
                 ELSE created_claimed
            /\ bot_turn' = IF waiting_for_response THEN "process_user_input" ELSE "idle"
            /\ CommitPanel(Panel, Op("process_user_input", << text, waiting_for_response >>))
    /\ UNCHANGED << analyze_vars, ui_turn, rounds, assigned_ids, store_vars,
                    settings_vars, ext_vars, to_bot, waiting_for_response, last_pattern_info,
                    patterns_received >>

\* process_user_input assigns waiting_for_response = False and returns.
ClearWaiting ==
    /\ bot_turn = "process_user_input"
    /\ waiting_for_response' = FALSE
    /\ bot_turn' = "idle"
    /\ CommitPanel(Panel, Op("waiting_for_response", FALSE))
    /\ UNCHANGED << analyze_vars, thread_vars, rounds, assigned_ids, store_vars,
                    settings_vars, ext_vars, to_bot, last_pattern_info, patterns_received,
                    created_claimed >>

NextChat ==
    \/ ChatPlay
    \/ ChatTick
    \/ ChatDeliver
    \/ BotReceive
    \/ UserReply
    \/ ClearWaiting

SpecChat == Init /\ [][NextChat]_vars

\* C39: SmartChatBot sends CREATE_RULE to the panel only when it is waiting
\* for the answer to a pattern message (waiting_for_response true) and the
\* user's input is affirmative; the reply that is processed clears
\* waiting_for_response; so the number of CREATE_RULE messages sent never
\* exceeds the number of pattern messages received.
C39_CreateRuleOnlyForAnOpenPrompt ==
    [][ /\ (Len(inbox') > Len(inbox))
            => /\ waiting_for_response
               /\ op'.name = "process_user_input"
               /\ Lower(op'.message[1]) \in Affirmative
               /\ inbox' = Append(inbox, CREATE_RULE)
        /\ (bot_turn = "process_user_input" /\ bot_turn' = "idle")
            => ~waiting_for_response'
        /\ Len(created_claimed') <= patterns_received' ]_vars

\* The chatbot received two pattern messages, sent CREATE_RULE for the
\* affirmative answer and cleared waiting_for_response.
C39_Witness ==
    /\ patterns_received = 2
    /\ Len(created_claimed) = 1
    /\ op.name = "waiting_for_response"
    /\ ~waiting_for_response

\* The prompt the chatbot affirmed for the oldest CREATE_RULE in flight.
AffirmedPrompt == created_claimed[Len(created_claimed) - Len(inbox) + 1]

\* The rule row is for that prompt's (device, time, action).
RuleIsFor(rule, prompt) ==
    /\ SplitSpace(rule.action[1], << >>) = << prompt.device >>
    /\ << ToString(rule.condition[2]) >> = prompt.time
    /\ << rule.action[2] >> = prompt.action

\* C34: whenever the panel handles a CREATE_RULE that SmartChatBot sent
\* after an affirmative answer to its prompt, the panel persists exactly
\* one rule, and that rule is for the prompted (device, time, action).
C34_PanelPersistsTheAffirmedRule ==
    [][ (op'.name = "_handle_chat_message" /\ Strip(op'.message) = CREATE_RULE)
            => /\ Len(db_rules') = Len(db_rules) + 1
               /\ RuleIsFor(db_rules'[Len(db_rules')], AffirmedPrompt) ]_vars

\* The two processes with their scheduling: each event loop delivers what
\* is queued for it, the chatbot's server thread receives what was sent to
\* its port, and a handler that has started runs to its end.
SpecChatFair ==
    /\ Init
    /\ [][NextChat]_vars
    /\ WF_vars(ChatDeliver)
    /\ WF_vars(BotReceive)
    /\ WF_vars(ClearWaiting)

\* C35: whenever the panel is paused awaiting a response and the user
\* answers the chatbot's prompt, accepting or declining, the panel
\* eventually handles a message and leaves the awaiting state.
C35_AnswerEndsAwaiting ==
    (/\ paused_for_chatbot
     /\ op.name = "process_user_input"
     /\ op.message[2])
        ~> ~paused_for_chatbot

\* C36: a CREATE_RULE handled while paused_for_chatbot is false persists
\* nothing and changes neither pending_event nor the timer; a rule is
\* persisted only by a step that leaves the awaiting state, one rule per
\* such step, so the rules created by negotiation never outnumber the
\* times the session entered the awaiting state.
C36_RuleOnlyWhileAwaiting ==
    [][ /\ (/\ op'.name = "_handle_chat_message"
            /\ Strip(op'.message) = CREATE_RULE
            /\ ~paused_for_chatbot)
                => /\ db_rules' = db_rules
                   /\ pending_event' = pending_event
                   /\ timer_active' = timer_active
        /\ (Len(db_rules') > Len(db_rules))
                => /\ paused_for_chatbot
                   /\ ~paused_for_chatbot'
                   /\ Len(db_rules') = Len(db_rules) + 1 ]_vars

\* CREATE_RULE was handled while the panel was not awaiting, with an event
\* still pending from before a restart and the timer running.
C36_Witness ==
    /\ op.name = "_handle_chat_message"
    /\ Strip(op.message) = CREATE_RULE
    /\ ~paused_for_chatbot
    /\ pending_event # NoEvent
    /\ timer_active
    /\ db_rules = << >>

\* C37: in every reachable state, paused_for_chatbot implies that
\* pending_event is set and is the event whose application sent the most
\* recent pattern message: an event the replay applied in this session,
\* with the device and time of day of the key notified last.
C37_PausedHasPendingEvent ==
    paused_for_chatbot =>
        /\ pending_event # NoEvent
        /\ session_sent # << >>
        /\ session_sent[Len(session_sent)]
             = << pending_event.device, strftime_HM(pending_event.timestamp) >>
        /\ \E i \in 1..Len(session_applied) : session_applied[i] = pending_event

\* The panel is awaiting after a tick that notified two patterns; the
\* pending event is the one notified second.
C37_Witness ==
    /\ paused_for_chatbot
    /\ busy_notify
    /\ Len(outbox) = 2
    /\ outbox[2] = PatternMessage(pending_event.device,
                                  strftime_HM(pending_event.timestamp),
                                  pending_event.value)

\* C38: handling a chatbot response that is no device-control and no
\* status command (CREATE_RULE or a plain decline text) leaves
\* service_index, sim_time, sim_end_time, sent_patterns, detected_patterns,
\* loaded_events and every device state unchanged, and sends nothing.
C38_ResponseLeavesReplayUntouched ==
    [][ (/\ op'.name = "_handle_chat_message"
         /\ ~Contains(Lower(Strip(op'.message)), "request_status")
         /\ ~Contains(Lower(Strip(op'.message)), "control:"))
            => /\ UNCHANGED << service_index, sim_time, sim_end_time, sent_patterns,
                               detected_patterns, loaded_events, devices, db_devices,
                               service_running, step_mode >>
               /\ outbox' = << >>
               /\ saved_patterns' = << >> ]_vars

\* A response was handled while the panel was awaiting in a running
\* session with a key notified: the awaiting state is left, the replay
\* position stays.
C38_Witness ==
    /\ op.name = "_handle_chat_message"
    /\ service_running
    /\ service_index > 0
    /\ sent_patterns # {}
    /\ ~paused_for_chatbot
    /\ pending_event = NoEvent
    /\ db_rules # << >>

\* ------------------------------------------------ DeviceCommand, alone

MaxBrightnessInput == 101

\* Brightness arguments: below, at and above both ends of the range.
BrightnessInputs == { 0 - 1, 0, 1, 50, 100, MaxBrightnessInput }

DeviceCommandStep(name, device, brightness) ==
    /\ ext_device' = device
    /\ ext_call' = [name |-> name, before |-> ext_device, brightness |-> brightness]
    /\ CommitPanel(Panel, Op(name, brightness))
    /\ UNCHANGED << analyze_vars, thread_vars, rounds, assigned_ids, store_vars,
                    settings_vars, chat_vars >>

SetBrightness ==
    \E brightness \in BrightnessInputs :
        DeviceCommandStep("set_brightness", set_brightness(ext_device, brightness), brightness)

TurnOn == DeviceCommandStep("turn_on", turn_on(ext_device), 0)

TurnOff == DeviceCommandStep("turn_off", turn_off(ext_device), 0)

InitBrightness ==
    /\ InitPanel
    /\ an_patterns = << >>
    /\ an_repeated = EmptyMap
    /\ an_calls = 0
    /\ an_first = [patterns |-> << >>, repeated |-> EmptyMap]
    /\ InitApart
    /\ ext_device \in extended_devices
    /\ ext_call = NoCall

NextBrightness == SetBrightness \/ TurnOn \/ TurnOff

SpecBrightness == InitBrightness /\ [][NextBrightness]_vars

\* C40: DeviceCommand.set_brightness(device, b) on a LIGHT sets brightness
\* to b clamped into 0..100 and state to (b > 0), leaving the other
\* properties; on a device of any other type it changes nothing.
C40_SetBrightnessClampsOnLights ==
    ext_call.name = "set_brightness" =>
        IF ext_call.before.type = LIGHT
        THEN /\ brightness_getter(ext_device)
                  = (IF ext_call.brightness < 0 THEN 0
                     ELSE IF ext_call.brightness > 100 THEN 100
                     ELSE ext_call.brightness)
             /\ ext_device.state = (ext_call.brightness > 0)
             /\ ext_device.type = LIGHT
             /\ ext_device.properties.channel = ext_call.before.properties.channel
             /\ ext_device.properties.volume = ext_call.before.properties.volume
        ELSE ext_device = ext_call.before

\* A light that was on was given a brightness above the range and holds 100.
C40_Witness ==
    /\ ext_call.name = "set_brightness"
    /\ ext_call.brightness = MaxBrightnessInput
    /\ ext_call.before.type = LIGHT
    /\ ext_call.before.state
    /\ ext_device.properties.brightness = 100

====
